---- MODULE Spec2Model ----
(***************************************************************************)
(* k8s-analyzer: the typed resource model (models.py), the relationship    *)
(* and health analyzer (analyzer.py) and the export parser with its file   *)
(* discovery (parser.py), as state machines.                               *)
(*                                                                         *)
(* Conventions                                                             *)
(*  - Python None is the value None below; an f-string renders it as the   *)
(*    text "None", which is how it enters an index key.                    *)
(*  - A Python dict of strings is a set of <<key, value>> pairs with       *)
(*    unique keys.                                                         *)
(*  - A "Kind/x/y" string is the tuple <<Kind, x, y>>: names, namespaces   *)
(*    and kinds are Kubernetes names, which hold no "/", so two such       *)
(*    strings are equal exactly when the tuples are.                       *)
(*  - A resource is one record for every kind; a field a kind does not     *)
(*    carry holds its Python default.                                      *)
(***************************************************************************)
EXTENDS Integers, Sequences, FiniteSets, TLC

VARIABLES
    resources,      \* ClusterState.resources (each with relationships, health_status, issues)
    relationships,  \* ClusterState.relationships
    summary,        \* ClusterState.summary
    runs,           \* number of analyze_cluster calls made
    passes_left,    \* relationship passes not yet run (pass-order specification)
    pc,             \* per relationship pass, the add_relationship calls it has made
                    \* (concurrent-pass specification)
    parser,         \* ResourceParser: parsed_count, error_count, skipped_count
    call,           \* the parser call made: its name and arguments
    raised,         \* the exception the last call raised, or None when it returned
    results,        \* per parser call made, the number of resources in the ClusterState
                    \* it returned, or -1 when it raised
    db              \* the SQLite database file: its committed rows

vars ==
    <<resources, relationships, summary, runs, passes_left, pc, parser, call, raised,
      results, db>>

\* ---------------------------------------------------------------- bounds
MaxRes == 3
MaxRuns == 2
MaxItems == 3       \* items of a List document
MaxDocs == 2        \* documents of a YAML stream
MaxBatch == 3       \* files of one parse_multiple_files call
MaxEntries == 3     \* files below a discovery root
MaxCalls == 3       \* calls made on one parser
MaxExports == 3     \* exports held by one database

\* ---------------------------------------------------------------- values
None == "None"

\* a key that is present with the value null where a mapping is expected; no
\* Kubernetes name looks like this
Null == "<null>"

Truthy(s) == s # None /\ s # ""

Max(S) == CHOOSE x \in S : \A y \in S : y <= x

\* dict.keys() and dict.get(key, default)
DictKeys(d) == {p[1] : p \in d}

DictGet(d, k, default) ==
    IF k \in DictKeys(d) THEN (CHOOSE p \in d : p[1] = k)[2] ELSE default

\* concatenation of F(1), ..., F(n): a for loop that collects what each round yields
FlatMap(F(_), n) ==
    LET acc[k \in 0..n] == IF k = 0 THEN <<>> ELSE acc[k - 1] \o F(k)
    IN acc[n]

\* a for loop over the resources 1..n whose body makes add_relationship calls:
\* every call carries `by`, the resource the loop is at when it is made
ForEach(F(_), n) ==
    FlatMap(LAMBDA i :
        LET calls == F(i)
        IN  [k \in 1..Len(calls) |-> [at |-> calls[k].at, rel |-> calls[k].rel, by |-> i]],
        n)

\* F applied to the value of x: a local variable, computed once and then read
With(x, F(_)) == CHOOSE r \in {F(v) : v \in {x}} : TRUE

\* ---------------------------------------------------------------- models.py
RelationshipType ==
    {"owns", "uses", "exposes", "binds", "references", "depends_on", "manages", "selects"}

ResourceStatus == {"healthy", "warning", "error", "unknown"}

\* KubernetesResource.ref
ref(r) ==
    [api_version |-> r.api_version, kind |-> r.kind, name |-> r.name,
     namespace |-> r.namespace, uid |-> r.uid]

\* ResourceReference.__eq__: the class defines none, so it is the one of its
\* base class, which compares the models field by field, uid included
ref_eq(a, b) ==
    /\ a.api_version = b.api_version /\ a.kind = b.kind /\ a.name = b.name
    /\ a.namespace = b.namespace /\ a.uid = b.uid

\* ResourceReference.__hash__: the hash of this tuple
ref_hash(a) == <<a.api_version, a.kind, a.name, a.namespace>>

\* ClusterState.get_resource_by_ref: the position of the first resource whose
\* ref equals the reference, 0 for None
get_resource_by_ref(res, reference) ==
    LET hits == {i \in 1..Len(res) : ref_eq(ref(res[i]), reference)}
    IN  IF hits = {} THEN 0 ELSE CHOOSE i \in hits : \A j \in hits : i <= j

\* KubernetesResource.full_name
full_name(r) ==
    IF Truthy(r.namespace) THEN <<r.kind, r.name, r.namespace>>
    ELSE <<r.kind, r.name>>

\* ResourceRelationship(source, target, relationship_type, direction, metadata)
ResourceRelationship(source, target, type, direction, metadata) ==
    [source |-> source, target |-> target, relationship_type |-> type,
     direction |-> direction, metadata |-> metadata]

\* relationship metadata: {} or one entry; sel carries a selector dict
NoMeta == [key |-> None, val |-> None, sel |-> {}]
Meta(key, val) == [key |-> key, val |-> val, sel |-> {}]
SelMeta(selector) == [key |-> "selector", val |-> None, sel |-> selector]

\* Pod.service_account: spec.get("serviceAccountName", "default")
service_account(r) ==
    IF r.spec.serviceAccountName = None THEN "default" ELSE r.spec.serviceAccountName

\* the dict status is truthy: not None and not empty
StatusTruthy(r) == r.status.present /\ r.status.nonempty

\* mutant: an inbound edge is written from the other end, the resource that
\* holds it being its target
EmitInboundSwapped(res, at, target, type, direction, metadata) ==
    <<[at |-> at,
       rel |-> IF direction = "inbound"
               THEN ResourceRelationship(target, ref(res[at]), type, direction, metadata)
               ELSE ResourceRelationship(ref(res[at]), target, type, direction, metadata)]>>

\* An emission is one add_relationship call: the relationship `rel` appended to
\* the relationships of resources[at].
Emit(res, at, target, type, direction, metadata) ==
    <<[at |-> at,
       rel |-> ResourceRelationship(ref(res[at]), target, type, direction, metadata)]>>

EmittedAt(em, i) ==
    LET mine == SelectSeq(em, LAMBDA e : e.at = i)
    IN [k \in 1..Len(mine) |-> mine[k].rel]

\* An exception raised where an emission would be: what follows it never runs.
Throw(exception) == <<[at |-> 0, rel |-> exception]>>

Thrown(em) ==
    IF \A k \in 1..Len(em) : em[k].at # 0 THEN None
    ELSE em[CHOOSE k \in 1..Len(em) : em[k].at = 0 /\ \A j \in 1..(k - 1) : em[j].at # 0].rel

\* the emissions made before the exception, all of them when there is none
Before(em) ==
    IF Thrown(em) = None THEN em
    ELSE SubSeq(em, 1, (CHOOSE k \in 1..Len(em) :
                            em[k].at = 0 /\ \A j \in 1..(k - 1) : em[j].at # 0) - 1)

\* KubernetesResource.add_relationship, for a sequence of calls in call order
add_relationship(res, em) ==
    [i \in 1..Len(res) |->
        [res[i] EXCEPT !.relationships = @ \o EmittedAt(em, i)]]

\* A KubernetesResource as the parser constructs it: the spec and status
\* payloads hold the keys the analyzer reads; relationships, health_status and
\* issues hold the field defaults.
EmptySpec ==
    [selector |-> {}, containers |-> <<>>, volumes |-> <<>>,
     serviceAccountName |-> None, nodeName |-> None, subjects |-> <<>>]

NoStatus ==
    [present |-> FALSE, nonempty |-> FALSE, phase |-> None, containerStatuses |-> <<>>,
     conditions |-> <<>>, loadBalancer |-> None, volumeName |-> None]

SomeStatus == [NoStatus EXCEPT !.present = TRUE, !.nonempty = TRUE]

Resource(kind, name, namespace) ==
    [api_version |-> "v1", kind |-> kind, name |-> name, namespace |-> namespace,
     uid |-> None, labels |-> {}, deletion_timestamp |-> FALSE,
     owner_references |-> <<>>, spec |-> EmptySpec, status |-> NoStatus,
     relationships |-> <<>>, health_status |-> "unknown", issues |-> <<>>]

\* ---------------------------------------------------------------- analyzer.py
\* ResourceAnalyzer._build_resource_index: a dict from key to the position of the
\* resource in the list; a later resource overwrites an earlier one on the same key
IndexKeys(r) ==
    {full_name(r)} \cup
    (IF ~Truthy(r.namespace) THEN {<<r.kind, r.name>>} ELSE {})

build_resource_index(res) ==
    LET allKeys == UNION {IndexKeys(res[i]) : i \in 1..Len(res)}
    IN {<<k, Max({i \in 1..Len(res) : k \in IndexKeys(res[i])})>> : k \in allKeys}

\* mutant: a selector key only has to be present among the labels
labels_match_selector_keys(labels, selector) ==
    \A p \in selector : p[1] \in DictKeys(labels)

\* ResourceAnalyzer._labels_match_selector
labels_match_selector(labels, selector) ==
    \A p \in selector : DictGet(labels, p[1], None) = p[2]

\* ResourceAnalyzer._analyze_ownership_relationships: the resource built for
\* the owner, as add_relationship takes its ref
OwnerTarget(r, o) ==
    [api_version |-> IF o.apiVersion = None THEN "v1" ELSE o.apiVersion,
     kind |-> o.kind, name |-> o.name, namespace |-> r.namespace, uid |-> None]

\* mutant: an owner that is not among the resources gets no edge
analyze_ownership_relationships_known(res) ==
    add_relationship(res,
        FlatMap(LAMBDA i :
            FlatMap(LAMBDA j :
                LET o == res[i].owner_references[j]
                IN  IF \/ ~Truthy(o.kind) \/ ~Truthy(o.name)
                       \/ \A k \in 1..Len(res) :
                              res[k].kind # o.kind \/ res[k].name # o.name
                    THEN <<>>
                    ELSE Emit(res, i, OwnerTarget(res[i], o), "depends_on", "outbound",
                              Meta("owner_reference", "True")),
                Len(res[i].owner_references)),
            Len(res)))

\* ResourceAnalyzer._analyze_ownership_relationships: the add_relationship calls
\* it makes, in call order
ownership_relationships(res) ==
    ForEach(LAMBDA i :
        FlatMap(LAMBDA j :
            LET o == res[i].owner_references[j]
            IN  IF ~Truthy(o.kind) \/ ~Truthy(o.name) THEN <<>>
                ELSE Emit(res, i, OwnerTarget(res[i], o), "depends_on", "outbound",
                          Meta("owner_reference", "True")),
            Len(res[i].owner_references)),
        Len(res))

\* the same: every call appends to the list of its resource
analyze_ownership_relationships(res) ==
    add_relationship(res, ownership_relationships(res))

\* ResourceAnalyzer._analyze_service_relationships: the add_relationship calls
\* it makes, in call order
service_relationships(res, index) ==
    ForEach(LAMBDA s :
        IF res[s].kind # "Service" \/ res[s].spec.selector = {} THEN <<>>
        ELSE FlatMap(LAMBDA p :
                IF /\ res[p].kind = "Pod"
                   /\ res[p].namespace = res[s].namespace
                   /\ labels_match_selector(res[p].labels, res[s].spec.selector)
                THEN Emit(res, s, ref(res[p]), "selects", "outbound",
                          SelMeta(res[s].spec.selector))
                     \o Emit(res, p, ref(res[s]), "exposes", "inbound", NoMeta)
                ELSE <<>>,
                Len(res)),
        Len(res))

\* the same: every call appends to the list of its resource
analyze_service_relationships(res, index) ==
    add_relationship(res, service_relationships(res, index))

\* ResourceAnalyzer._add_config_relationship
add_config_relationship(res, index, pod, config_name, config_kind) ==
    IF ~Truthy(config_name) THEN <<>>
    ELSE LET config_resource ==
                 DictGet(index, <<config_kind, res[pod].namespace, config_name>>, 0)
         IN  IF config_resource = 0 THEN <<>>
             ELSE Emit(res, pod, ref(res[config_resource]), "uses", "outbound", NoMeta)

\* ResourceAnalyzer._analyze_pod_config_relationships
analyze_pod_config_relationships(res, index, pod) ==
    LET containers == res[pod].spec.containers
        volumes == res[pod].spec.volumes
    IN  FlatMap(LAMBDA c :
            FlatMap(LAMBDA e :
                add_config_relationship(res, index, pod,
                    containers[c].env[e].configMapKeyRef, "ConfigMap")
                \o add_config_relationship(res, index, pod,
                    containers[c].env[e].secretKeyRef, "Secret"),
                Len(containers[c].env))
            \o
            FlatMap(LAMBDA m :
                IF ~Truthy(containers[c].volumeMounts[m]) THEN <<>>
                ELSE FlatMap(LAMBDA v :
                        IF volumes[v].name # containers[c].volumeMounts[m] THEN <<>>
                        ELSE (IF volumes[v].configMap = Null
                              THEN Throw("AttributeError")
                              ELSE add_config_relationship(res, index, pod,
                                       volumes[v].configMap, "ConfigMap"))
                             \o
                             (IF volumes[v].secret = Null
                              THEN Throw("AttributeError")
                              ELSE add_config_relationship(res, index, pod,
                                       volumes[v].secret, "Secret")),
                        Len(volumes)),
                Len(containers[c].volumeMounts)),
            Len(containers))

\* ResourceAnalyzer._analyze_pod_storage_relationships
analyze_pod_storage_relationships(res, index, pod) ==
    FlatMap(LAMBDA v :
        LET claim_name == res[pod].spec.volumes[v].persistentVolumeClaim
            pvc == DictGet(index,
                       <<"PersistentVolumeClaim", res[pod].namespace, claim_name>>, 0)
        IN  IF ~Truthy(claim_name) \/ claim_name = Null \/ pvc = 0 THEN <<>>
            ELSE Emit(res, pod, ref(res[pvc]), "uses", "outbound",
                      Meta("volume_name", res[pod].spec.volumes[v].name)),
        Len(res[pod].spec.volumes))

\* ResourceAnalyzer._analyze_pod_serviceaccount_relationships
analyze_pod_serviceaccount_relationships(res, index, pod) ==
    LET sa_name == service_account(res[pod])
        sa == DictGet(index, <<"ServiceAccount", res[pod].namespace, sa_name>>, 0)
    IN  IF ~Truthy(sa_name) \/ sa_name = "default" \/ sa = 0 THEN <<>>
        ELSE Emit(res, pod, ref(res[sa]), "uses", "outbound", NoMeta)

\* mutant: the node is looked up in the pod's namespace
analyze_pod_node_relationships_namespaced(res, index, pod) ==
    LET node_name == res[pod].spec.nodeName
        node == DictGet(index, <<"Node", res[pod].namespace, node_name>>, 0)
    IN  IF ~Truthy(node_name) \/ node = 0 THEN <<>>
        ELSE Emit(res, pod, ref(res[node]), "depends_on", "outbound",
                  Meta("scheduled", "True"))

\* ResourceAnalyzer._analyze_pod_node_relationships
analyze_pod_node_relationships(res, index, pod) ==
    LET node_name == res[pod].spec.nodeName
        node == DictGet(index, <<"Node", node_name>>, 0)
    IN  IF ~Truthy(node_name) \/ node = 0 THEN <<>>
        ELSE Emit(res, pod, ref(res[node]), "depends_on", "outbound",
                  Meta("scheduled", "True"))

\* ResourceAnalyzer._analyze_pod_relationships: the add_relationship calls of
\* the four steps, pod by pod
pod_relationships(res, index) ==
    ForEach(LAMBDA pod :
        IF res[pod].kind # "Pod" THEN <<>>
        ELSE analyze_pod_config_relationships(res, index, pod)
             \o analyze_pod_storage_relationships(res, index, pod)
             \o analyze_pod_serviceaccount_relationships(res, index, pod)
             \o analyze_pod_node_relationships(res, index, pod),
        Len(res))

analyze_pod_relationships(res, index) ==
    add_relationship(res, Before(pod_relationships(res, index)))

\* mutant: the volume is looked up in the claim's namespace
analyze_storage_relationships_namespaced(res, index) ==
    add_relationship(res,
        FlatMap(LAMBDA pvc :
            LET volume_name == res[pvc].status.volumeName
                pv == DictGet(index,
                          <<"PersistentVolume", volume_name, res[pvc].namespace>>, 0)
            IN  IF \/ res[pvc].kind # "PersistentVolumeClaim"
                   \/ ~StatusTruthy(res[pvc])
                   \/ volume_name = None
                   \/ pv = 0
                THEN <<>>
                ELSE Emit(res, pvc, ref(res[pv]), "binds", "outbound", NoMeta),
            Len(res)))

\* mutant: a claim that already has a relationship is not bound again
analyze_storage_relationships_once(res, index) ==
    add_relationship(res,
        FlatMap(LAMBDA pvc :
            LET volume_name == res[pvc].status.volumeName
                pv == DictGet(index, <<"PersistentVolume", volume_name>>, 0)
            IN  IF \/ res[pvc].kind # "PersistentVolumeClaim"
                   \/ res[pvc].relationships # <<>>
                   \/ ~StatusTruthy(res[pvc])
                   \/ volume_name = None
                   \/ pv = 0
                THEN <<>>
                ELSE Emit(res, pvc, ref(res[pv]), "binds", "outbound", NoMeta),
            Len(res)))

\* ResourceAnalyzer._analyze_storage_relationships: the add_relationship calls
\* it makes, in call order
storage_relationships(res, index) ==
    ForEach(LAMBDA pvc :
        LET volume_name == res[pvc].status.volumeName
            pv == DictGet(index, <<"PersistentVolume", volume_name>>, 0)
        IN  IF \/ res[pvc].kind # "PersistentVolumeClaim"
               \/ ~StatusTruthy(res[pvc])
               \/ volume_name = None
               \/ pv = 0
            THEN <<>>
            ELSE Emit(res, pvc, ref(res[pv]), "binds", "outbound", NoMeta),
        Len(res))

\* the same: every call appends to the list of its resource
analyze_storage_relationships(res, index) ==
    add_relationship(res, storage_relationships(res, index))

\* ResourceAnalyzer._analyze_rbac_relationships: the add_relationship calls
\* it makes, in call order
rbac_relationships(res, index) ==
    ForEach(LAMBDA rb :
        IF res[rb].kind # "RoleBinding" THEN <<>>
        ELSE FlatMap(LAMBDA j :
                LET subject == res[rb].spec.subjects[j]
                    sa_namespace == IF subject.namespace = None
                                    THEN res[rb].namespace ELSE subject.namespace
                    sa == DictGet(index,
                              <<"ServiceAccount", sa_namespace, subject.name>>, 0)
                IN  IF subject.kind # "ServiceAccount" \/ sa = 0 THEN <<>>
                    ELSE Emit(res, rb, ref(res[sa]), "references", "outbound",
                              Meta("subject", "True")),
                Len(res[rb].spec.subjects)),
        Len(res))

\* the same: every call appends to the list of its resource
analyze_rbac_relationships(res, index) ==
    add_relationship(res, rbac_relationships(res, index))

\* ResourceAnalyzer._collect_cluster_relationships
collect_cluster_relationships(res) ==
    FlatMap(LAMBDA i : res[i].relationships, Len(res))

\* _assess_pod_health with `restartCount >= 5` for `restartCount > 5`
assess_pod_health_from_five(r) ==
    LET cs == r.status.containerStatuses
        bad == {k \in 1..Len(cs) : ~cs[k].ready \/ cs[k].restartCount >= 5}
        first == CHOOSE k \in bad : \A j \in bad : k <= j
    IN  IF ~StatusTruthy(r) THEN [health |-> "unknown", issues |-> <<>>]
        ELSE IF r.status.phase = "Failed"
            THEN [health |-> "error", issues |-> << <<"Pod is in Failed phase">> >>]
        ELSE IF r.status.phase = "Pending"
            THEN [health |-> "warning", issues |-> << <<"Pod is in Pending phase">> >>]
        ELSE IF r.status.phase = "Running" /\ bad # {}
            THEN IF ~cs[first].ready
                 THEN [health |-> "warning",
                       issues |-> << <<"Container", cs[first].name, "is not ready">> >>]
                 ELSE [health |-> "warning",
                       issues |-> << <<"Container", cs[first].name,
                                       "has high restart count">> >>]
        ELSE [health |-> "healthy", issues |-> <<>>]

\* ResourceAnalyzer._assess_pod_health: the verdict and the issues it appends
assess_pod_health(r) ==
    LET cs == r.status.containerStatuses
        bad == {k \in 1..Len(cs) : ~cs[k].ready \/ cs[k].restartCount > 5}
        first == CHOOSE k \in bad : \A j \in bad : k <= j
    IN  IF ~StatusTruthy(r) THEN [health |-> "unknown", issues |-> <<>>]
        ELSE IF r.status.phase = "Failed"
            THEN [health |-> "error", issues |-> << <<"Pod is in Failed phase">> >>]
        ELSE IF r.status.phase = "Pending"
            THEN [health |-> "warning", issues |-> << <<"Pod is in Pending phase">> >>]
        ELSE IF r.status.phase = "Running" /\ bad # {}
            THEN IF ~cs[first].ready
                 THEN [health |-> "warning",
                       issues |-> << <<"Container", cs[first].name, "is not ready">> >>]
                 ELSE [health |-> "warning",
                       issues |-> << <<"Container", cs[first].name,
                                       "has high restart count">> >>]
        ELSE [health |-> "healthy", issues |-> <<>>]

\* _assess_service_health with the selector check before the load-balancer check
assess_service_health_selector_first(r) ==
    IF r.spec.selector = {}
        THEN [health |-> "warning", issues |-> << <<"Service has no selector">> >>]
    ELSE IF StatusTruthy(r) /\ r.status.loadBalancer = "no-ingress"
        THEN [health |-> "warning",
              issues |-> << <<"LoadBalancer service has no ingress">> >>]
    ELSE [health |-> "healthy", issues |-> <<>>]

\* ResourceAnalyzer._assess_service_health
assess_service_health(r) ==
    IF StatusTruthy(r) /\ r.status.loadBalancer = "no-ingress"
        THEN [health |-> "warning",
              issues |-> << <<"LoadBalancer service has no ingress">> >>]
    ELSE IF r.spec.selector = {}
        THEN [health |-> "warning", issues |-> << <<"Service has no selector">> >>]
    ELSE [health |-> "healthy", issues |-> <<>>]

\* mutant: the kind-specific checks come before the deletion check
assess_resource_health_kind_first(r) ==
    IF r.kind = "Pod" /\ assess_pod_health(r).health # "healthy"
        THEN assess_pod_health(r)
    ELSE IF r.kind = "Service" /\ assess_service_health(r).health # "healthy"
        THEN assess_service_health(r)
    ELSE IF r.deletion_timestamp
        THEN [health |-> "warning", issues |-> << <<"Resource is being deleted">> >>]
    ELSE [health |-> "healthy", issues |-> <<>>]

\* mutant: the deletion check records its issue and goes on to the other checks
assess_resource_health_falls_through(r) ==
    LET rest == assess_resource_health_kind_first([r EXCEPT !.deletion_timestamp = FALSE])
    IN  IF r.deletion_timestamp
            THEN [health |-> IF rest.health = "healthy" THEN "warning" ELSE rest.health,
                  issues |-> << <<"Resource is being deleted">> >> \o rest.issues]
        ELSE rest

\* ResourceAnalyzer._assess_resource_health
assess_resource_health(r) ==
    LET conds == r.status.conditions
        bad == {k \in 1..Len(conds) :
                    conds[k].status = "False"
                    /\ conds[k].type \in {"Ready", "Available", "Progressing"}}
        first == CHOOSE k \in bad : \A j \in bad : k <= j
    IN  IF r.deletion_timestamp
            THEN [health |-> "warning", issues |-> << <<"Resource is being deleted">> >>]
        ELSE IF r.kind = "Pod" THEN assess_pod_health(r)
        ELSE IF r.kind = "Service" THEN assess_service_health(r)
        ELSE IF StatusTruthy(r) /\ bad # {}
            THEN [health |-> "error",
                  issues |-> << <<"Condition", conds[first].type, "is False">> >>]
        ELSE [health |-> "healthy", issues |-> <<>>]

\* ResourceAnalyzer._analyze_resource_health
analyze_resource_health(res) ==
    [i \in 1..Len(res) |->
        [res[i] EXCEPT !.health_status = assess_resource_health(res[i]).health,
                       !.issues = @ \o assess_resource_health(res[i]).issues]]

\* ClusterState.generate_summary
generate_summary(res, rels) ==
    [total_resources |-> Len(res),
     total_relationships |-> Len(rels),
     health_status |->
        [h \in ResourceStatus |->
            Cardinality({i \in 1..Len(res) : res[i].health_status = h})]]

\* the five relationship passes of analyze_cluster, by name
Passes == {"ownership", "service", "pod", "storage", "rbac"}

RunPass(p, res) ==
    LET resource_index == build_resource_index(res)
    IN  CASE p = "ownership" -> analyze_ownership_relationships(res)
          [] p = "service" -> analyze_service_relationships(res, resource_index)
          [] p = "pod" -> analyze_pod_relationships(res, resource_index)
          [] p = "storage" -> analyze_storage_relationships(res, resource_index)
          [] p = "rbac" -> analyze_rbac_relationships(res, resource_index)

\* mutant: the summary is computed before the health pass
finish_analysis_summary_first(res) ==
    LET rels == collect_cluster_relationships(res)
    IN  [resources |-> analyze_resource_health(res), relationships |-> rels,
         summary |-> generate_summary(res, rels)]

\* analyze_cluster from the relationship collection on: collect, health, summary
finish_analysis(res) ==
    LET rels == collect_cluster_relationships(res)
        assessed == analyze_resource_health(res)
    IN  [resources |-> assessed, relationships |-> rels,
         summary |-> generate_summary(assessed, rels)]

\* ResourceAnalyzer.analyze_cluster: what it returns, or the exception that
\* leaves it and the resources as the passes run so far have left them
analyze_cluster(res) ==
    LET resource_index == build_resource_index(res)
        r1 == analyze_ownership_relationships(res)
        r2 == analyze_service_relationships(r1, resource_index)
        r3 == analyze_pod_relationships(r2, resource_index)
        r4 == analyze_storage_relationships(r3, resource_index)
        r5 == analyze_rbac_relationships(r4, resource_index)
        exception == Thrown(pod_relationships(r2, resource_index))
    IN  IF exception # None
        THEN [raised |-> exception, resources |-> r3, relationships |-> <<>>,
              summary |-> generate_summary(<<>>, <<>>)]
        ELSE With(finish_analysis(r5), LAMBDA done :
                [raised |-> None, resources |-> done.resources,
                 relationships |-> done.relationships, summary |-> done.summary])

\* ---------------------------------------------------------------- parser.py
\* ResourceParser.SUPPORTED_KINDS
SUPPORTED_KINDS ==
    {"Pod", "Service", "ConfigMap", "Node", "Namespace", "PersistentVolume",
     "PersistentVolumeClaim", "RoleBinding", "Ingress", "ServiceAccount"}

\* ResourceParser.__init__
NewParser == [parsed_count |-> 0, error_count |-> 0, skipped_count |-> 0]

\* ResourceParser.get_parse_stats
get_parse_stats(p) ==
    [parsed |-> p.parsed_count, errors |-> p.error_count, skipped |-> p.skipped_count,
     total |-> p.parsed_count + p.error_count + p.skipped_count]

\* ClusterState(): no resources, no relationships, summary {} (no entry at all)
EmptySummary ==
    [total_resources |-> -1, total_relationships |-> -1,
     health_status |-> [h \in ResourceStatus |-> -1]]

\* What a parser function hands back: the exception it raised or the
\* ClusterState it returned, and the parser's counters afterwards.
Raise(exception, p) ==
    [raised |-> exception, resources |-> <<>>, summary |-> EmptySummary, parser |-> p]

Return(res, summ, p) ==
    [raised |-> None, resources |-> res, summary |-> summ, parser |-> p]

\* A document is what json.loads / yaml.safe_load_all yield: a mapping, null, or
\* something else (form "scalar": a string, a number, a list). A mapping carries
\* kind, metadata name and namespace and spec; valid is FALSE when building the
\* pydantic model from it raises (a name that is no string, labels that are no
\* dict); has_items tells whether the key items is absent, a list, or null.
BuildResource(data) ==
    [Resource(data.kind, data.name, data.namespace) EXCEPT
        !.spec = data.spec, !.uid = data.uid]

\* _parse_single_resource with an unsupported kind counted as an error
parse_single_resource_unsupported_error(data, p) ==
    IF data.form # "mapping"
        THEN [resource |-> <<>>, parser |-> [p EXCEPT !.error_count = @ + 1]]
    ELSE IF ~Truthy(data.kind)
        THEN [resource |-> <<>>, parser |-> [p EXCEPT !.skipped_count = @ + 1]]
    ELSE IF data.kind \notin SUPPORTED_KINDS
        THEN [resource |-> <<>>, parser |-> [p EXCEPT !.error_count = @ + 1]]
    ELSE IF ~data.valid
        THEN [resource |-> <<>>, parser |-> [p EXCEPT !.error_count = @ + 1]]
    ELSE [resource |-> << BuildResource(data) >>,
          parser |-> [p EXCEPT !.parsed_count = @ + 1]]

\* ResourceParser._parse_single_resource: the resource appended, or nothing
parse_single_resource(data, p) ==
    IF data.form # "mapping"
        THEN [resource |-> <<>>, parser |-> [p EXCEPT !.error_count = @ + 1]]
    ELSE IF ~Truthy(data.kind)
        THEN [resource |-> <<>>, parser |-> [p EXCEPT !.skipped_count = @ + 1]]
    ELSE IF data.kind \notin SUPPORTED_KINDS
        THEN [resource |-> <<>>, parser |-> [p EXCEPT !.skipped_count = @ + 1]]
    ELSE IF ~data.valid
        THEN [resource |-> <<>>, parser |-> [p EXCEPT !.error_count = @ + 1]]
    ELSE [resource |-> << BuildResource(data) >>,
          parser |-> [p EXCEPT !.parsed_count = @ + 1]]

\* for doc in docs: resource = _parse_single_resource(doc); add it when not None
\* (skip_null: the `if doc is None: continue` of _parse_multiple_resources)
ParseEach(docs, p, skip_null) ==
    LET acc[k \in 0..Len(docs)] ==
            IF k = 0 THEN [resources |-> <<>>, parser |-> p]
            ELSE IF skip_null /\ docs[k].form = "null" THEN acc[k - 1]
            ELSE With(acc[k - 1], LAMBDA before :
                    With(parse_single_resource(docs[k], before.parser), LAMBDA one :
                        [resources |-> before.resources \o one.resource,
                         parser |-> one.parser]))
    IN acc[Len(docs)]

\* ResourceParser._parse_kubectl_export
parse_kubectl_export(data, p) ==
    IF data.form # "mapping" THEN Raise("AttributeError", p)
    ELSE IF data.kind = "List" /\ data.has_items # "absent"
        THEN IF data.has_items = "null" THEN Raise("TypeError", p)
             ELSE LET done == ParseEach(data.items, p, FALSE)
                  IN  Return(done.resources, generate_summary(done.resources, <<>>),
                             done.parser)
    ELSE LET done == ParseEach(<<data>>, p, FALSE)
         IN  Return(done.resources, generate_summary(done.resources, <<>>), done.parser)

\* ResourceParser._parse_multiple_resources
parse_multiple_resources(documents, p) ==
    LET done == ParseEach(documents, p, TRUE)
    IN  Return(done.resources, generate_summary(done.resources, <<>>), done.parser)

\* A file: whether it exists, its suffix, what its text is (syntax "json": one
\* JSON value, which YAML reads as the same single document; "yaml": a YAML
\* stream that is not JSON; "garbage": neither parser accepts it) and the
\* documents the text holds.

\* ResourceParser._parse_json_content
parse_json_content(file, p) ==
    IF file.syntax # "json" THEN Raise("JSONDecodeError", p)
    ELSE parse_kubectl_export(file.docs[1], p)

\* ResourceParser._parse_yaml_content
parse_yaml_content(file, p) ==
    IF file.syntax = "garbage" THEN Raise("YAMLError", p)
    ELSE IF Len(file.docs) = 1 /\ file.docs[1].form = "mapping"
        THEN parse_kubectl_export(file.docs[1], p)
    ELSE parse_multiple_resources(file.docs, p)

\* ResourceParser.parse_file
parse_file(file, p) ==
    IF ~file.exists THEN Raise("FileNotFoundError", p)
    ELSE IF file.suffix = ".json" THEN parse_json_content(file, p)
    ELSE IF file.suffix \in {".yaml", ".yml"} THEN parse_yaml_content(file, p)
    ELSE IF parse_json_content(file, p).raised = "JSONDecodeError"
        THEN parse_yaml_content(file, p)
    ELSE parse_json_content(file, p)

\* parse_multiple_files without its try / except: the first failure propagates
parse_multiple_files_abort(file_paths, p) ==
    LET acc[k \in 0..Len(file_paths)] ==
            IF k = 0 THEN [raised |-> None, resources |-> <<>>, parser |-> p]
            ELSE With(acc[k - 1], LAMBDA before :
                    IF before.raised # None THEN before
                    ELSE With(parse_file(file_paths[k], before.parser), LAMBDA one :
                            [raised |-> one.raised,
                             resources |-> before.resources \o one.resources,
                             parser |-> one.parser]))
    IN  With(acc[Len(file_paths)], LAMBDA done :
            IF done.raised # None THEN Raise(done.raised, done.parser)
            ELSE Return(done.resources, generate_summary(done.resources, <<>>),
                        done.parser))

\* parse_multiple_files keeping only the resources of the last file that parsed
parse_multiple_files_unmerged(file_paths, p) ==
    LET acc[k \in 0..Len(file_paths)] ==
            IF k = 0 THEN [resources |-> <<>>, parser |-> p]
            ELSE With(acc[k - 1], LAMBDA before :
                    With(parse_file(file_paths[k], before.parser), LAMBDA one :
                        IF one.raised # None
                        THEN [resources |-> before.resources,
                              parser |-> [one.parser EXCEPT !.error_count = @ + 1]]
                        ELSE [resources |-> one.resources,
                              parser |-> one.parser]))
    IN  With(acc[Len(file_paths)], LAMBDA done :
            Return(done.resources, generate_summary(done.resources, <<>>), done.parser))

\* ResourceParser.parse_multiple_files
parse_multiple_files(file_paths, p) ==
    LET acc[k \in 0..Len(file_paths)] ==
            IF k = 0 THEN [resources |-> <<>>, parser |-> p]
            ELSE With(acc[k - 1], LAMBDA before :
                    With(parse_file(file_paths[k], before.parser), LAMBDA one :
                        IF one.raised # None
                        THEN [resources |-> before.resources,
                              parser |-> [one.parser EXCEPT !.error_count = @ + 1]]
                        ELSE [resources |-> before.resources \o one.resources,
                              parser |-> one.parser]))
    IN  With(acc[Len(file_paths)], LAMBDA done :
            Return(done.resources, generate_summary(done.resources, <<>>), done.parser))

\* ---------------------------------------------------------------- discovery
\* A file name as the glob patterns see it: whether it starts with kubectl-,
\* whether it ends in -export before the suffix, and the suffix. A pattern is
\* the same record: "*.yaml" asks for the suffix, "*-export.yaml" and
\* "kubectl-*.yaml" for the ending or the start as well.
Pattern(kubectl, export, ext) == [kubectl |-> kubectl, export |-> export, ext |-> ext]

\* Path.match / the match glob makes, for these patterns
Matches(name, pattern) ==
    /\ name.ext = pattern.ext
    /\ pattern.export => name.export
    /\ pattern.kubectl => name.kubectl

\* the default patterns of find_kubernetes_files, in the order of the source
DefaultPatterns ==
    << Pattern(FALSE, FALSE, ".yaml"), Pattern(FALSE, FALSE, ".yml"),
       Pattern(FALSE, FALSE, ".json"),
       Pattern(FALSE, TRUE, ".yaml"), Pattern(FALSE, TRUE, ".yml"),
       Pattern(FALSE, TRUE, ".json"),
       Pattern(TRUE, FALSE, ".yaml"), Pattern(TRUE, FALSE, ".yml"),
       Pattern(TRUE, FALSE, ".json") >>

\* sorted(set): the elements of a set of paths in ascending order
RECURSIVE SortedSeq(_)
SortedSeq(S) ==
    IF S = {} THEN <<>>
    ELSE LET least == CHOOSE x \in S : \A y \in S : x <= y
         IN  <<least>> \o SortedSeq(S \ {least})

\* A root is missing, one file, or a directory whose entries come in the order
\* the file system lists them. An entry has its path (a number: its place in the
\* order of paths), its depth below the root (0: in the root itself) and its name.
\* path.glob(pattern) / path.glob("**/" + pattern): the matching paths, as listed
Glob(root, pattern, recursive) ==
    LET hits == SelectSeq(root.entries,
                    LAMBDA e : Matches(e.name, pattern) /\ (recursive \/ e.depth = 0))
    IN  [k \in 1..Len(hits) |-> hits[k].path]

\* find_kubernetes_files with a missing root skipped: nothing found, no error
find_kubernetes_files_skip_missing(root, patterns, recursive) ==
    IF ~root.exists THEN [raised |-> None, files |-> <<>>]
    ELSE IF ~root.is_dir
        THEN IF patterns = <<>>
                \/ \E k \in 1..Len(patterns) : Matches(root.entries[1].name, patterns[k])
             THEN [raised |-> None, files |-> << root.entries[1].path >>]
             ELSE [raised |-> None, files |-> <<>>]
    ELSE LET used == IF patterns = <<>> THEN DefaultPatterns ELSE patterns
             found_files == FlatMap(LAMBDA k : Glob(root, used[k], recursive), Len(used))
             unique_files == {found_files[k] : k \in 1..Len(found_files)}
         IN  [raised |-> None, files |-> SortedSeq(unique_files)]

\* find_kubernetes_files: the exception raised, or the list returned
find_kubernetes_files(root, patterns, recursive) ==
    IF ~root.exists THEN [raised |-> "FileNotFoundError", files |-> <<>>]
    ELSE IF ~root.is_dir
        THEN IF patterns = <<>>
                \/ \E k \in 1..Len(patterns) : Matches(root.entries[1].name, patterns[k])
             THEN [raised |-> None, files |-> << root.entries[1].path >>]
             ELSE [raised |-> None, files |-> <<>>]
    ELSE LET used == IF patterns = <<>> THEN DefaultPatterns ELSE patterns
             found_files == FlatMap(LAMBDA k : Glob(root, used[k], recursive), Len(used))
             unique_files == {found_files[k] : k \in 1..Len(found_files)}
         IN  [raised |-> None, files |-> SortedSeq(unique_files)]

\* a path that does not exist
MissingRoot == [exists |-> FALSE, is_dir |-> FALSE, entries |-> <<>>]

\* the file at a path below the root
FileAt(root, path) ==
    (CHOOSE e \in {root.entries[k] : k \in 1..Len(root.entries)} : e.path = path).file

\* discover_and_parse; max_files -1 stands for None. paths is the list handed to
\* parse_multiple_files; the ResourceParser is made just before that call.
discover_and_parse(root, patterns, recursive, max_files) ==
    With(find_kubernetes_files(root, patterns, recursive), LAMBDA found :
        IF found.raised # None
            THEN [raised |-> found.raised, resources |-> <<>>, summary |-> EmptySummary,
                  parser_made |-> FALSE, parser |-> NewParser, paths |-> <<>>]
        ELSE IF found.files = <<>>
            THEN [raised |-> None, resources |-> <<>>, summary |-> EmptySummary,
                  parser_made |-> FALSE, parser |-> NewParser, paths |-> <<>>]
        ELSE With(IF max_files # -1 /\ max_files # 0 /\ Len(found.files) > max_files
                  THEN SubSeq(found.files, 1, max_files)
                  ELSE found.files, LAMBDA files :
             With(parse_multiple_files(
                      [k \in 1..Len(files) |-> FileAt(root, files[k])], NewParser),
                  LAMBDA out :
                      [raised |-> None, resources |-> out.resources,
                       summary |-> out.summary, parser_made |-> TRUE,
                       parser |-> out.parser, paths |-> files])))

\* ---------------------------------------------------------------- inputs
Namespaces == {"a", "b"}

PodLabels ==
    { {}, {<<"app", "x">>}, {<<"app", "x">>, <<"tier", "y">>}, {<<"app", "z">>} }

Selectors == { {}, {<<"app", "x">>}, {<<"app", "x">>, <<"tier", "y">>} }

\* a pod of namespace a that names b everywhere it can name another resource
WiredSpec ==
    [EmptySpec EXCEPT
        !.containers = << [env |-> << [configMapKeyRef |-> "b", secretKeyRef |-> "b"] >>,
                           volumeMounts |-> << "v", "w" >>] >>,
        !.volumes = << [name |-> "v", configMap |-> "b", secret |-> None,
                        persistentVolumeClaim |-> None],
                       [name |-> "w", configMap |-> None, secret |-> None,
                        persistentVolumeClaim |-> "b"] >>,
        !.serviceAccountName = "b",
        !.nodeName = "n"]

OwnerRefs ==
    << [kind |-> "ReplicaSet", name |-> "rs", apiVersion |-> "apps/v1"],
       [kind |-> None, name |-> "x", apiVersion |-> None] >>

Pods ==
    { [Resource("Pod", "p", "a") EXCEPT !.labels = l] : l \in PodLabels }
    \cup { [Resource("Pod", "p", "b") EXCEPT !.labels = {<<"app", "x">>}],
           [Resource("Pod", "q", "a") EXCEPT !.spec = WiredSpec,
                                             !.labels = {<<"app", "z">>}],
           [Resource("Pod", "q", "b") EXCEPT !.owner_references = OwnerRefs,
                                             !.labels = {<<"app", "x">>},
                                             !.spec.nodeName = "m"] }

Services ==
    { [Resource("Service", "s", "a") EXCEPT !.spec.selector = sel] : sel \in Selectors }
    \cup { [Resource("Service", "s", "b") EXCEPT !.spec.selector = {<<"app", "x">>}] }

Claims ==
    { [Resource("PersistentVolumeClaim", "c", "a") EXCEPT !.status = st] :
        st \in { NoStatus,
                 [SomeStatus EXCEPT !.phase = "Pending"],
                 [SomeStatus EXCEPT !.phase = "Bound", !.volumeName = "a"] } }
    \cup { [Resource("PersistentVolumeClaim", "b", "a") EXCEPT
                !.status = [SomeStatus EXCEPT !.volumeName = "a"],
                !.owner_references = OwnerRefs],
           Resource("PersistentVolumeClaim", "a", "b") }

\* PersistentVolume a, cluster-scoped as Kubernetes has it, and one that came
\* with a namespace in its metadata
Volumes ==
    { Resource("PersistentVolume", "a", None),
      Resource("PersistentVolume", "a", "a") }

Others ==
    { Resource("ConfigMap", "b", "a"), Resource("ConfigMap", "a", "b"),
      Resource("ServiceAccount", "b", "a"), Resource("ServiceAccount", "a", "b"),
      Resource("Node", "n", None),
      [Resource("RoleBinding", "rb", "a") EXCEPT
          !.spec.subjects = << [kind |-> "User", name |-> "b", namespace |-> None],
                               [kind |-> "ServiceAccount", name |-> "b",
                                namespace |-> None],
                               [kind |-> "ServiceAccount", name |-> "b",
                                namespace |-> "a"] >>] }

\* the resources of the analysis specification: pods and the services selecting them
Universe == Pods \cup Services

\* the resources of the storage specification: claims, volumes and a pod that
\* mounts a claim
StorageUniverse ==
    Claims \cup Volumes \cup {[Resource("Pod", "q", "a") EXCEPT !.spec = WiredSpec]}

\* the resources of the pass-order specification: every pass has something to find
PassUniverse ==
    { [Resource("Pod", "p", "a") EXCEPT !.labels = {<<"app", "x">>}],
      [Resource("Pod", "q", "a") EXCEPT !.spec = WiredSpec],
      [Resource("Pod", "q", "b") EXCEPT !.owner_references = OwnerRefs,
                                        !.labels = {<<"app", "x">>},
                                        !.spec.nodeName = "m"],
      [Resource("Service", "s", "a") EXCEPT !.spec.selector = {<<"app", "x">>}],
      [Resource("PersistentVolumeClaim", "b", "a") EXCEPT
           !.status = [SomeStatus EXCEPT !.volumeName = "a"],
           !.owner_references = OwnerRefs],
      Resource("PersistentVolume", "a", None) }
    \cup Others

\* owner references with an owner that is in the export, an entry without
\* name, and the same owner twice
ServiceOwnerRefs ==
    << [kind |-> "Service", name |-> "s", apiVersion |-> None],
       [kind |-> "Service", name |-> None, apiVersion |-> "v1"],
       [kind |-> "Service", name |-> "s", apiVersion |-> "v1"] >>

\* the resources of the ownership and scheduling specification
OwnerUniverse ==
    { Resource("Pod", "p", "a"),
      [Resource("Pod", "q", "a") EXCEPT !.spec = WiredSpec],
      [Resource("Pod", "q", "b") EXCEPT !.owner_references = OwnerRefs,
                                        !.labels = {<<"app", "x">>},
                                        !.spec.nodeName = "m"],
      [Resource("Pod", "o", "a") EXCEPT !.owner_references = ServiceOwnerRefs],
      [Resource("Service", "s", "a") EXCEPT !.spec.selector = {<<"app", "x">>}],
      Resource("Node", "n", None),
      [Resource("Node", "m", None) EXCEPT !.owner_references = OwnerRefs],
      [Resource("PersistentVolumeClaim", "b", "a") EXCEPT
           !.status = [SomeStatus EXCEPT !.volumeName = "a"],
           !.owner_references = OwnerRefs] }

\* a pod spec that names a for its ConfigMap, its Secret and its ServiceAccount
NamedSpec(a) ==
    [EmptySpec EXCEPT
        !.containers = << [env |-> << [configMapKeyRef |-> a, secretKeyRef |-> a] >>,
                           volumeMounts |-> << "v" >>] >>,
        !.volumes = << [name |-> "v", configMap |-> a, secret |-> a,
                        persistentVolumeClaim |-> None] >>,
        !.serviceAccountName = a]

\* a pod spec whose mounted volume has configMap: null
NullVolumeSpec ==
    [EmptySpec EXCEPT
        !.containers = << [env |-> <<>>, volumeMounts |-> << "v" >>] >>,
        !.volumes = << [name |-> "v", configMap |-> Null, secret |-> None,
                        persistentVolumeClaim |-> None] >>]

\* the resources of the reference specification: pods in namespace a that name
\* b, a and default, a pod with a null volume source, role bindings, and the
\* ConfigMaps and ServiceAccounts they can mean
RefUniverse ==
    { [Resource("Pod", "q", "a") EXCEPT !.spec = WiredSpec],
      [Resource("Pod", "r", "a") EXCEPT !.spec = NamedSpec("a")],
      [Resource("Pod", "d", "a") EXCEPT !.spec.serviceAccountName = "default"],
      [Resource("Pod", "m", "a") EXCEPT !.spec = NullVolumeSpec],
      Resource("ConfigMap", "b", "a"), Resource("ConfigMap", "a", "b"),
      Resource("ConfigMap", "a", "a"),
      Resource("ServiceAccount", "b", "a"), Resource("ServiceAccount", "a", "b"),
      Resource("ServiceAccount", "a", "a"), Resource("ServiceAccount", "default", "a"),
      [Resource("RoleBinding", "rb", "a") EXCEPT
          !.spec.subjects = << [kind |-> "User", name |-> "b", namespace |-> None],
                               [kind |-> "ServiceAccount", name |-> "b",
                                namespace |-> None],
                               [kind |-> "ServiceAccount", name |-> "a",
                                namespace |-> "a"] >>] }

\* one export of one cluster: no two objects share kind, namespace and name
Identity(r) == <<r.kind, r.name, r.namespace>>

DistinctIdentities(res) ==
    \A i, j \in 1..Len(res) : Identity(res[i]) = Identity(res[j]) => i = j

\* the lists of n resources of U with distinct identities
RECURSIVE ListsOfLen(_, _)
ListsOfLen(U, n) ==
    IF n = 0 THEN {<<>>}
    ELSE UNION {{Append(res, r) : r \in {x \in U : DistinctIdentities(Append(res, x))}}
                : res \in ListsOfLen(U, n - 1)}

ResourceLists(U) == UNION {ListsOfLen(U, n) : n \in 0..MaxRes}

\* ---------------------------------------------------------------- analysis
\* the parser has done its work: the analysis specifications leave it alone
NoCall ==
    [op |-> None, files |-> <<>>, root |-> MissingRoot, patterns |-> <<>>,
     recursive |-> FALSE, max_files |-> -1, paths |-> <<>>,
     reference |-> ref(Resource(None, None, None)), found |-> 0,
     replace_existing |-> FALSE, batch_size |-> 0, totals |-> <<0, 0>>]

\* no database file yet: sqlite3.connect creates it empty, create_schema its
\* tables: resources, relationships, resource_health_history, analysis_summary
\* (cluster_info gets no row: the parser leaves ClusterState.cluster_info empty)
NewDatabase ==
    [resources |-> <<>>, relationships |-> <<>>, history |-> <<>>, summaries |-> 0]

ParserIdle ==
    /\ parser = NewParser /\ call = NoCall /\ raised = None
    /\ results = <<>> /\ db = NewDatabase
    /\ pc = [p \in Passes |-> 0]

\* the state a parse returns (ClusterState of _parse_kubectl_export), then
\* analyze_cluster called on it again and again
InitAnalyze ==
    /\ resources \in ResourceLists(Universe)
    /\ relationships = <<>>
    /\ summary = generate_summary(resources, <<>>)
    /\ runs = 0
    /\ passes_left = {}
    /\ ParserIdle

AnalyzeCluster ==
    /\ runs < MaxRuns
    /\ passes_left = {}
    /\ \E out \in {analyze_cluster(resources)} :
        /\ resources' = out.resources
        /\ raised' = out.raised
        /\ IF out.raised = None
           THEN relationships' = out.relationships /\ summary' = out.summary
           ELSE UNCHANGED <<relationships, summary>>
    /\ runs' = runs + 1
    /\ UNCHANGED <<passes_left, pc, parser, call, results, db>>

Spec == InitAnalyze /\ [][AnalyzeCluster]_vars

\* the same on claims and volumes
InitStorage ==
    /\ resources \in ResourceLists(StorageUniverse)
    /\ relationships = <<>>
    /\ summary = generate_summary(resources, <<>>)
    /\ runs = 0
    /\ passes_left = {}
    /\ ParserIdle

SpecStorage == InitStorage /\ [][AnalyzeCluster]_vars

\* the same on owners, pods and nodes
InitOwners ==
    /\ resources \in ResourceLists(OwnerUniverse)
    /\ relationships = <<>>
    /\ summary = generate_summary(resources, <<>>)
    /\ runs = 0
    /\ passes_left = {}
    /\ ParserIdle

SpecOwners == InitOwners /\ [][AnalyzeCluster]_vars

\* ---------------------------------------------------------------- sqlite_exporter.py
\* the row of a resource, in the columns that identify it (uid NULL for None)
Row(r) == [uid |-> r.uid, kind |-> r.kind, name |-> r.name, namespace |-> r.namespace]

\* INSERT OR REPLACE / INSERT OR IGNORE INTO resources: the column uid is
\* UNIQUE, a NULL uid conflicts with no row
insert_resource(rows, row, replace_existing) ==
    IF row.uid = None \/ \A k \in 1..Len(rows) : rows[k].uid # row.uid
    THEN Append(rows, row)
    ELSE IF replace_existing
        THEN Append(SelectSeq(rows, LAMBDA x : x.uid # row.uid), row)
    ELSE rows

\* SQLiteExporter._clear_existing_data
clear_existing_data(data) == NewDatabase

\* SQLiteExporter._export_resources
export_resources(data, res, replace_existing) ==
    LET acc[k \in 0..Len(res)] ==
            IF k = 0 THEN data
            ELSE With(acc[k - 1], LAMBDA before :
                    [before EXCEPT
                        !.resources = insert_resource(@, Row(res[k]), replace_existing),
                        !.history = IF Truthy(res[k].uid) THEN Append(@, res[k].uid)
                                    ELSE @])
    IN  acc[Len(res)]

\* the row of a relationship, in the columns that identify it
RelationshipRow(rel) ==
    [source_uid |-> rel.source.uid, relationship_type |-> rel.relationship_type,
     source_kind |-> rel.source.kind, source_name |-> rel.source.name,
     source_namespace |-> rel.source.namespace,
     target_kind |-> rel.target.kind, target_name |-> rel.target.name,
     target_namespace |-> rel.target.namespace]

\* SQLiteExporter._export_relationships: source_uid is NOT NULL, so the row of
\* a relationship whose source has no uid is refused with IntegrityError
export_relationships(data, rels) ==
    IF \E k \in 1..Len(rels) : ~Truthy(rels[k].source.uid)
    THEN [raised |-> "IntegrityError", db |-> data]
    ELSE [raised |-> None,
          db |-> [data EXCEPT !.relationships =
                      @ \o [k \in 1..Len(rels) |-> RelationshipRow(rels[k])]]]

\* SQLiteExporter._export_analysis_summary
export_analysis_summary(data) == [data EXCEPT !.summaries = @ + 1]

\* SQLiteExporter.export_cluster_state, from a connection just opened to the
\* commit: an exception leaves before the commit, and what was written is lost
\* when the connection is closed
export_cluster_state(data, res, rels, replace_existing) ==
    With(export_relationships(
             export_resources(IF replace_existing THEN clear_existing_data(data)
                              ELSE data,
                              res, replace_existing),
             rels),
         LAMBDA out :
            IF out.raised # None THEN [raised |-> out.raised, db |-> data]
            ELSE [raised |-> None, db |-> export_analysis_summary(out.db)])

\* export_multiple_files_to_sqlite, the files of one batch: a file that fails
\* to parse is logged and left out
parse_batch(batch_files, p) ==
    LET acc[k \in 0..Len(batch_files)] ==
            IF k = 0 THEN [resources |-> <<>>, parser |-> p]
            ELSE With(acc[k - 1], LAMBDA before :
                    With(parse_file(batch_files[k], before.parser), LAMBDA one :
                        [resources |-> IF one.raised # None THEN before.resources
                                       ELSE before.resources \o one.resources,
                         parser |-> one.parser]))
    IN  acc[Len(batch_files)]

\* file_paths[i:i + batch_size] for the batch that starts at i
BatchOf(file_paths, i, batch_size) ==
    SubSeq(file_paths, i + 1,
           IF i + batch_size < Len(file_paths) THEN i + batch_size ELSE Len(file_paths))

\* export_multiple_files_to_sqlite: db holds the committed rows, connection
\* what the open connection sees; export_cluster_state commits, and closing
\* the connection drops what is not committed
export_multiple_files_to_sqlite(file_paths, data, replace_existing, batch_size) ==
    LET batches == (Len(file_paths) + batch_size - 1) \div batch_size
        acc[b \in 0..batches] ==
            IF b = 0
            THEN [raised |-> None, db |-> data,
                  connection |-> IF replace_existing THEN clear_existing_data(data)
                                 ELSE data,
                  parser |-> NewParser, total_resources |-> 0,
                  total_relationships |-> 0]
            ELSE With(acc[b - 1], LAMBDA before :
                IF before.raised # None THEN before
                ELSE With(parse_batch(BatchOf(file_paths, (b - 1) * batch_size,
                                              batch_size),
                                      before.parser), LAMBDA parsed :
                    IF parsed.resources = <<>>
                    THEN [before EXCEPT !.parser = parsed.parser]
                    ELSE With(analyze_cluster(parsed.resources), LAMBDA analysed :
                        IF analysed.raised # None
                        THEN [before EXCEPT !.raised = analysed.raised,
                                            !.parser = parsed.parser]
                        ELSE With(export_cluster_state(before.connection,
                                      analysed.resources, analysed.relationships,
                                      FALSE),
                                  LAMBDA out :
                            IF out.raised # None
                            THEN [before EXCEPT !.raised = out.raised,
                                                !.parser = parsed.parser]
                            ELSE [raised |-> None, db |-> out.db,
                                  connection |-> out.db, parser |-> parsed.parser,
                                  total_resources |->
                                      before.total_resources + Len(analysed.resources),
                                  total_relationships |->
                                      before.total_relationships
                                          + Len(analysed.relationships)]))))
    IN  [raised |-> acc[batches].raised, db |-> acc[batches].db,
         parser |-> acc[batches].parser,
         total_resources |-> acc[batches].total_resources,
         total_relationships |-> acc[batches].total_relationships]

\* resources as an export carries them, with metadata.uid, and as a manifest
\* has them, without
ExportUniverse ==
    { [Resource("Pod", "p", "a") EXCEPT !.labels = {<<"app", "x">>}, !.uid = u] :
        u \in {None, "u1"} }
    \cup { [Resource("Service", "s", "a") EXCEPT
                !.spec.selector = {<<"app", "x">>}, !.uid = u] : u \in {None, "u2"} }
    \cup { [Resource("ConfigMap", "c", "a") EXCEPT !.uid = u] : u \in {None, "u3"} }

\* the ClusterState the analyzer hands to the exporter
InitExport ==
    /\ \E res \in ResourceLists(ExportUniverse) :
        \E out \in {analyze_cluster(res)} :
            /\ resources = out.resources
            /\ relationships = out.relationships
            /\ summary = out.summary
    /\ runs = 1
    /\ passes_left = {}
    /\ ParserIdle

\* with SQLiteExporter(db_path) as exporter: exporter.create_schema();
\* exporter.export_cluster_state(cluster_state, replace_existing)
ExportClusterState ==
    /\ db.summaries < MaxExports
    /\ \E replace_existing \in BOOLEAN :
        \E out \in {export_cluster_state(db, resources, relationships,
                                         replace_existing)} :
            /\ call' = [NoCall EXCEPT !.op = "export_cluster_state",
                           !.replace_existing = replace_existing]
            /\ raised' = out.raised
            /\ db' = out.db
    /\ UNCHANGED <<resources, relationships, summary, runs, passes_left, pc, parser,
                   results>>

SpecExport == InitExport /\ [][ExportClusterState]_vars

\* ---------------------------------------------------------------- lookup
\* resources as an export carries them, with their uid, and one without
LookupUniverse ==
    { [Resource("Pod", "p", "a") EXCEPT !.uid = u] : u \in {None, "u1"} }
    \cup { [Resource("Service", "s", "a") EXCEPT !.uid = u] : u \in {None, "u2"} }
    \cup { [Resource("Pod", "p", "b") EXCEPT !.uid = "u1"] }

\* the references a caller can build
References ==
    [api_version : {"v1", "apps/v1"}, kind : {"Pod", "Service"}, name : {"p", "s"},
     namespace : {"a", "b"}, uid : {None, "u1", "u2"}]

InitLookup ==
    /\ resources \in ResourceLists(LookupUniverse)
    /\ relationships = <<>>
    /\ summary = generate_summary(resources, <<>>)
    /\ runs = 0
    /\ passes_left = {}
    /\ ParserIdle

\* cluster_state.get_resource_by_ref(reference)
GetResourceByRef ==
    /\ call.op = None
    /\ \E reference \in References :
        call' = [NoCall EXCEPT !.op = "get_resource_by_ref", !.reference = reference,
                    !.found = get_resource_by_ref(resources, reference)]
    /\ UNCHANGED <<resources, relationships, summary, runs, passes_left, pc, parser,
                   raised, results, db>>

SpecLookup == InitLookup /\ [][GetResourceByRef]_vars

\* ---------------------------------------------------------------- references
InitRefs ==
    /\ resources \in ResourceLists(RefUniverse)
    /\ relationships = <<>>
    /\ summary = generate_summary(resources, <<>>)
    /\ runs = 0
    /\ passes_left = {}
    /\ ParserIdle

SpecRefs == InitRefs /\ [][AnalyzeCluster]_vars

\* ---------------------------------------------------------------- pass order
\* The five relationship passes of analyze_cluster run one at a time in an order
\* the scheduler picks, each exactly once; then the rest of analyze_cluster.
InitPasses ==
    /\ resources \in ResourceLists(PassUniverse)
    /\ relationships = <<>>
    /\ summary = generate_summary(resources, <<>>)
    /\ runs = 0
    /\ passes_left = Passes
    /\ ParserIdle

PassStep(p) ==
    /\ p \in passes_left
    /\ resources' = RunPass(p, resources)
    /\ passes_left' = passes_left \ {p}
    /\ UNCHANGED <<relationships, summary, runs, pc, parser, call, raised, results, db>>

FinishPasses ==
    /\ passes_left = {}
    /\ runs = 0
    /\ LET out == finish_analysis(resources)
       IN  /\ resources' = out.resources
           /\ relationships' = out.relationships
           /\ summary' = out.summary
    /\ runs' = 1
    /\ UNCHANGED <<passes_left, pc, parser, call, raised, results, db>>

NextPasses == (\E p \in Passes : PassStep(p)) \/ FinishPasses

SpecPasses == InitPasses /\ [][NextPasses]_vars

\* ---------------------------------------------------------------- concurrent passes
\* The five relationship passes of analyze_cluster run as concurrent processes
\* over the index built before they start; one step is one add_relationship
\* call (a list append) of one pass. When all five have returned,
\* analyze_cluster goes on: collect, health, summary.
ConcurrentUniverse ==
    { [Resource("Pod", "p", "a") EXCEPT !.owner_references = OwnerRefs,
                                        !.labels = {<<"app", "x">>},
                                        !.spec.nodeName = "n"],
      [Resource("Service", "s", "a") EXCEPT !.spec.selector = {<<"app", "x">>}],
      Resource("Node", "n", None),
      [Resource("PersistentVolumeClaim", "b", "a") EXCEPT
           !.status = [SomeStatus EXCEPT !.volumeName = "a"],
           !.owner_references = OwnerRefs],
      Resource("PersistentVolume", "a", None) }

\* the add_relationship calls pass p makes, in its call order; the passes read
\* the index and every field of the resources but the relationship lists
PassCalls(p, res) ==
    LET resource_index == build_resource_index(res)
    IN  CASE p = "ownership" -> ownership_relationships(res)
          [] p = "service" -> service_relationships(res, resource_index)
          [] p = "pod" -> Before(pod_relationships(res, resource_index))
          [] p = "storage" -> storage_relationships(res, resource_index)
          [] p = "rbac" -> rbac_relationships(res, resource_index)

InitConcurrent ==
    /\ resources \in ResourceLists(ConcurrentUniverse)
    /\ relationships = <<>>
    /\ summary = generate_summary(resources, <<>>)
    /\ runs = 0
    /\ passes_left = Passes
    /\ ParserIdle

\* mutant: the append is a read and a write with the other passes in between:
\* the pass writes back the list it knows, its own calls, and the new entry
PassAppendStale(p) ==
    /\ p \in passes_left
    /\ \E calls \in {PassCalls(p, resources)} :
        /\ pc[p] < Len(calls)
        /\ resources' =
              [i \in 1..Len(resources) |->
                  IF i # calls[pc[p] + 1].at THEN resources[i]
                  ELSE [resources[i] EXCEPT !.relationships =
                            EmittedAt(SubSeq(calls, 1, pc[p] + 1), i)]]
    /\ pc' = [pc EXCEPT ![p] = @ + 1]
    /\ UNCHANGED <<relationships, summary, runs, passes_left, parser, call, raised,
                   results, db>>

\* the next add_relationship call of pass p: self.relationships.append(...)
PassAppend(p) ==
    /\ p \in passes_left
    /\ \E calls \in {PassCalls(p, resources)} :
        /\ pc[p] < Len(calls)
        /\ resources' = add_relationship(resources, <<calls[pc[p] + 1]>>)
    /\ pc' = [pc EXCEPT ![p] = @ + 1]
    /\ UNCHANGED <<relationships, summary, runs, passes_left, parser, call, raised,
                   results, db>>

\* pass p has made its calls and returns, or its exception leaves it
PassReturn(p) ==
    /\ p \in passes_left
    /\ \E calls \in {PassCalls(p, resources)} : pc[p] = Len(calls)
    /\ passes_left' = passes_left \ {p}
    /\ raised' = IF p = "pod" /\ raised = None
                 THEN Thrown(pod_relationships(resources, build_resource_index(resources)))
                 ELSE raised
    /\ UNCHANGED <<resources, relationships, summary, runs, pc, parser, call, results, db>>

\* the five passes have returned: the rest of analyze_cluster, or the
\* exception of a pass leaves it
JoinPasses ==
    /\ passes_left = {}
    /\ runs = 0
    /\ IF raised # None THEN UNCHANGED <<resources, relationships, summary>>
       ELSE \E out \in {finish_analysis(resources)} :
               /\ resources' = out.resources
               /\ relationships' = out.relationships
               /\ summary' = out.summary
    /\ runs' = 1
    /\ UNCHANGED <<passes_left, pc, parser, call, raised, results, db>>

NextConcurrent == (\E p \in Passes : PassAppend(p) \/ PassReturn(p)) \/ JoinPasses

SpecConcurrent == InitConcurrent /\ [][NextConcurrent]_vars

\* ---------------------------------------------------------------- health inputs
\* one Pod, one Service and one Node, each with or without a deletion timestamp
\* and with every status payload a health rule tells apart
ContainerStatus(name, ready, restartCount) ==
    [name |-> name, ready |-> ready, restartCount |-> restartCount]

PodStatuses ==
    { NoStatus,
      [SomeStatus EXCEPT !.phase = "Failed"],
      [SomeStatus EXCEPT !.phase = "Pending"],
      [SomeStatus EXCEPT !.phase = "Succeeded"],
      [SomeStatus EXCEPT !.phase = "Running"],
      [SomeStatus EXCEPT !.phase = "Running",
          !.containerStatuses = << ContainerStatus("c1", TRUE, 5) >>],
      [SomeStatus EXCEPT !.phase = "Running",
          !.containerStatuses = << ContainerStatus("c1", TRUE, 0),
                                   ContainerStatus("c2", FALSE, 0) >>],
      [SomeStatus EXCEPT !.phase = "Running",
          !.containerStatuses = << ContainerStatus("c1", TRUE, 6),
                                   ContainerStatus("c2", FALSE, 0) >>] }

ServiceStatuses ==
    { NoStatus,
      [SomeStatus EXCEPT !.loadBalancer = "no-ingress"],
      [SomeStatus EXCEPT !.loadBalancer = "ingress"] }

NodeStatuses ==
    { NoStatus,
      [SomeStatus EXCEPT !.conditions = << [type |-> "Ready", status |-> "True"] >>],
      [SomeStatus EXCEPT !.conditions = << [type |-> "MemoryPressure", status |-> "False"],
                                           [type |-> "Ready", status |-> "False"] >>],
      [SomeStatus EXCEPT !.conditions = << [type |-> "Ready", status |-> "Unknown"] >>] }

HealthUniverse ==
    { [Resource("Pod", "p", "a") EXCEPT !.status = st, !.deletion_timestamp = d] :
        st \in PodStatuses, d \in BOOLEAN }
    \cup
    { [Resource("Service", "s", "a") EXCEPT
          !.status = st, !.spec.selector = sel, !.deletion_timestamp = d] :
        st \in ServiceStatuses, sel \in { {}, {<<"app", "x">>} }, d \in BOOLEAN }
    \cup
    { [Resource("Node", "n", None) EXCEPT !.status = st, !.deletion_timestamp = d] :
        st \in NodeStatuses, d \in BOOLEAN }

InitHealth ==
    /\ resources \in ResourceLists(HealthUniverse)
    /\ relationships = <<>>
    /\ summary = generate_summary(resources, <<>>)
    /\ runs = 0
    /\ passes_left = {}
    /\ ParserIdle

SpecHealth == InitHealth /\ [][AnalyzeCluster]_vars

\* ---------------------------------------------------------------- parse inputs
Document(form, kind, name, namespace, valid) ==
    [form |-> form, kind |-> kind, name |-> name, namespace |-> namespace,
     valid |-> valid, spec |-> EmptySpec, uid |-> None, has_items |-> "absent",
     items |-> <<>>]

PodDoc(name) == Document("mapping", "Pod", name, "a", TRUE)
ServiceDoc == Document("mapping", "Service", "s", "a", TRUE)
\* a kind outside SUPPORTED_KINDS
SecretDoc == Document("mapping", "Secret", "t", "a", TRUE)
\* a mapping without kind
NoKindDoc == Document("mapping", None, "u", "a", TRUE)
\* a supported kind whose model construction raises ValidationError
InvalidDoc == Document("mapping", "Pod", "v", "a", FALSE)
\* a document that is no mapping: a string, a number, a list
ScalarDoc == Document("scalar", None, None, None, FALSE)
\* the empty document of a YAML stream, JSON null
NullDoc == Document("null", None, None, None, FALSE)

ItemDocs == {PodDoc("p"), ServiceDoc, SecretDoc, NoKindDoc, InvalidDoc, ScalarDoc}

ItemLists == UNION {[1..n -> ItemDocs] : n \in 0..MaxItems}

\* kind: List with items a list, items null, or no items key
ListDoc(items) ==
    [Document("mapping", "List", None, None, TRUE) EXCEPT
        !.has_items = "list", !.items = items]
ListNullItems ==
    [Document("mapping", "List", None, None, TRUE) EXCEPT !.has_items = "null"]
ListNoItems == Document("mapping", "List", None, None, TRUE)

TopDocs ==
    ItemDocs \cup {NullDoc, ListNullItems, ListNoItems} \cup {ListDoc(l) : l \in ItemLists}

StreamDocs == {PodDoc("p"), SecretDoc, NullDoc, ScalarDoc, ListDoc(<< PodDoc("q") >>)}

Streams == UNION {[1..n -> StreamDocs] : n \in 0..MaxDocs}

File(suffix, syntax, docs) ==
    [exists |-> TRUE, suffix |-> suffix, syntax |-> syntax, docs |-> docs]
MissingFile == [exists |-> FALSE, suffix |-> ".json", syntax |-> "garbage", docs |-> <<>>]

Suffixes == {".json", ".yaml", ".txt"}

Files ==
    {MissingFile}
    \cup {File(x, "garbage", <<>>) : x \in Suffixes}
    \cup {File(x, "json", <<d>>) : x \in Suffixes, d \in TopDocs}
    \cup {File(x, "yaml", ds) : x \in Suffixes, ds \in Streams}
    \cup {File(".yml", "yaml", << PodDoc("p") >>)}

\* the files a batch is made of: two that parse, and one of each way to fail
BatchFiles ==
    { File(".json", "json", << ListDoc(<< PodDoc("p"), SecretDoc >>) >>),
      File(".yaml", "yaml", << PodDoc("q"), ScalarDoc, ServiceDoc >>),
      MissingFile,
      File(".json", "garbage", <<>>),
      File(".yaml", "garbage", <<>>),
      File(".json", "json", << ScalarDoc >>) }

Batches == UNION {[1..n -> BatchFiles] : n \in 0..MaxBatch}

\* names of the files of a directory, and what each file holds: one Pod named
\* after the path
Names ==
    { Pattern(FALSE, FALSE, ".yaml"), Pattern(FALSE, TRUE, ".yaml"),
      Pattern(FALSE, FALSE, ".txt") }

PathNames == << "f1", "f2", "f3", "f4", "f5" >>

Entry(path, depth, name) ==
    [path |-> path, depth |-> depth, name |-> name,
     file |-> File(name.ext, "yaml", << PodDoc(PathNames[path]) >>)]

Entries(path) ==
    {Entry(path, 0, n) : n \in Names}
    \cup {Entry(path, 1, n) : n \in Names \ {Pattern(FALSE, FALSE, ".txt")}}

\* a directory listing: up to MaxEntries files with paths 1..n, in any order
Listings ==
    UNION {{l \in [1..n -> UNION {Entries(q) : q \in 1..n}] :
                \A i, j \in 1..n : i # j => l[i].path # l[j].path}
           : n \in 0..MaxEntries}

Roots ==
    {MissingRoot}
    \cup {[exists |-> TRUE, is_dir |-> FALSE, entries |-> << e >>] : e \in Entries(1)}
    \cup {[exists |-> TRUE, is_dir |-> TRUE, entries |-> l] : l \in Listings}

\* patterns not given (None), and a list whose patterns overlap
PatternLists ==
    { <<>>, << Pattern(FALSE, FALSE, ".yaml"), Pattern(FALSE, TRUE, ".yaml") >> }

\* max_files not given (-1), zero, below, at and above the number of files
MaxFiles == -1..(MaxEntries + 1)

\* ---------------------------------------------------------------- parsing
\* One call on a parser that has parsed nothing yet.
InitParse ==
    /\ resources = <<>>
    /\ relationships = <<>>
    /\ summary = EmptySummary
    /\ runs = 0
    /\ passes_left = {}
    /\ ParserIdle

\* what the caller holds after the call: the ClusterState returned, if any
Outcome(out) ==
    /\ raised' = out.raised
    /\ IF out.raised = None
       THEN /\ resources' = out.resources
            /\ relationships' = <<>>
            /\ summary' = out.summary
       ELSE UNCHANGED <<resources, relationships, summary>>
    /\ results' = Append(results, IF out.raised = None THEN Len(out.resources) ELSE -1)
    /\ UNCHANGED <<runs, passes_left, pc, db>>

ParseFile ==
    /\ call.op = None
    /\ \E f \in Files :
        \E out \in {parse_file(f, parser)} :
            /\ call' = [NoCall EXCEPT !.op = "parse_file", !.files = << f >>]
            /\ parser' = out.parser
            /\ Outcome(out)

ParseMultipleFiles ==
    /\ call.op = None
    /\ \E fs \in Batches :
        \E out \in {parse_multiple_files(fs, parser)} :
            /\ call' = [NoCall EXCEPT !.op = "parse_multiple_files", !.files = fs]
            /\ parser' = out.parser
            /\ Outcome(out)

DiscoverAndParse ==
    /\ call.op = None
    /\ \E root \in Roots, patterns \in PatternLists, recursive \in BOOLEAN,
          max_files \in MaxFiles :
        \E out \in {discover_and_parse(root, patterns, recursive, max_files)} :
            /\ call' = [NoCall EXCEPT !.op = "discover_and_parse", !.root = root,
                           !.patterns = patterns, !.recursive = recursive,
                           !.max_files = max_files, !.paths = out.paths]
            /\ parser' = IF out.parser_made THEN out.parser ELSE parser
            /\ Outcome(out)

NextParse == ParseFile \/ ParseMultipleFiles

\* One parser used for several calls, one after the other: the counters are
\* never reset.
CallFiles ==
    { File(".json", "json", << ListDoc(<< PodDoc("p"), SecretDoc >>) >>),
      File(".yaml", "yaml", << PodDoc("q"), ScalarDoc, ServiceDoc >>),
      MissingFile }

CallBatches == UNION {[1..n -> CallFiles] : n \in {0, 2}}

ParseFileAgain ==
    /\ Len(results) < MaxCalls
    /\ \E f \in BatchFiles :
        \E out \in {parse_file(f, parser)} :
            /\ call' = [NoCall EXCEPT !.op = "parse_file", !.files = << f >>]
            /\ parser' = out.parser
            /\ Outcome(out)

ParseMultipleFilesAgain ==
    /\ Len(results) < MaxCalls
    /\ \E fs \in CallBatches :
        \E out \in {parse_multiple_files(fs, parser)} :
            /\ call' = [NoCall EXCEPT !.op = "parse_multiple_files", !.files = fs]
            /\ parser' = out.parser
            /\ Outcome(out)

NextCalls == ParseFileAgain \/ ParseMultipleFilesAgain

SpecCalls == InitParse /\ [][NextCalls]_vars

SpecParse == InitParse /\ [][NextParse]_vars

SpecDiscover == InitParse /\ [][DiscoverAndParse]_vars

\* ---------------------------------------------------------------- pipeline
\* the documents of an export to analyze: pods that name a and b, and the
\* Secrets, the ConfigMap and the ServiceAccount they name
PipelineDocs ==
    { [PodDoc("r") EXCEPT !.spec = NamedSpec("a")],
      [PodDoc("q") EXCEPT !.spec = WiredSpec],
      Document("mapping", "Secret", "a", "a", TRUE),
      Document("mapping", "Secret", "b", "a", TRUE),
      Document("mapping", "ConfigMap", "a", "a", TRUE),
      Document("mapping", "ServiceAccount", "a", "a", TRUE) }

PipelineFiles ==
    { File(".json", "json", << ListDoc(items) >>) :
        items \in UNION {[1..n -> PipelineDocs] : n \in 0..MaxItems} }
    \cup {MissingFile}

\* the analyze command: parse_kubectl_export(file_path) on a parser of its
\* own, then ResourceAnalyzer().analyze_cluster on the state it returned
Analyze ==
    /\ call.op = None
    /\ \E f \in PipelineFiles :
        \E parsed \in {parse_file(f, NewParser)} :
            \E out \in {analyze_cluster(parsed.resources)} :
                /\ call' = [NoCall EXCEPT !.op = "analyze", !.files = << f >>]
                /\ parser' = parsed.parser
                /\ results' = Append(results, IF parsed.raised = None
                                              THEN Len(parsed.resources) ELSE -1)
                /\ IF parsed.raised # None
                   THEN /\ raised' = parsed.raised
                        /\ UNCHANGED <<resources, relationships, summary, runs>>
                   ELSE /\ raised' = out.raised
                        /\ resources' = out.resources
                        /\ runs' = runs + 1
                        /\ IF out.raised = None
                           THEN /\ relationships' = out.relationships
                                /\ summary' = out.summary
                           ELSE /\ relationships' = <<>>
                                /\ summary' = parsed.summary
    /\ UNCHANGED <<passes_left, pc, db>>

SpecPipeline == InitParse /\ [][Analyze]_vars

\* ---------------------------------------------------------------- batch export
\* kubectl exports of one cluster, one object per file: a Pod that refers to
\* ConfigMap a and ServiceAccount a, the two it refers to, and a path without file
ExportFiles ==
    { File(".json", "json", << ListDoc(<< d >>) >>) :
        d \in { [PodDoc("r") EXCEPT !.spec = NamedSpec("a"), !.uid = "u1"],
                [Document("mapping", "ConfigMap", "a", "a", TRUE) EXCEPT !.uid = "u2"],
                [Document("mapping", "ServiceAccount", "a", "a", TRUE) EXCEPT
                     !.uid = "u3"] } }
    \cup {MissingFile}

\* export_multiple_files_to_sqlite(file_paths, db_path, replace_existing,
\* batch_size) on a path without database file
ExportMultipleFilesToSqlite ==
    /\ call.op = None
    /\ \E n \in 0..MaxBatch :
        \E file_paths \in [1..n -> ExportFiles], batch_size \in 1..MaxBatch,
           replace_existing \in BOOLEAN :
            \E out \in {export_multiple_files_to_sqlite(file_paths, db, replace_existing,
                                                        batch_size)} :
                /\ call' = [NoCall EXCEPT
                               !.op = "export_multiple_files_to_sqlite",
                               !.files = file_paths,
                               !.replace_existing = replace_existing,
                               !.batch_size = batch_size,
                               !.totals = IF out.raised # None THEN <<-1, -1>>
                                          ELSE <<out.total_resources,
                                                 out.total_relationships>>]
                /\ raised' = out.raised
                /\ parser' = out.parser
                /\ db' = out.db
    /\ UNCHANGED <<resources, relationships, summary, runs, passes_left, pc, results>>

SpecBatchExport == InitParse /\ [][ExportMultipleFilesToSqlite]_vars

\* ---------------------------------------------------------------- properties
Range(seq) == {seq[k] : k \in 1..Len(seq)}

\* res has a relationship of this type to this target among its relationships
HasEdge(r, type, target) ==
    \E e \in Range(r.relationships) :
        e.relationship_type = type /\ e.target = target /\ e.source = ref(r)

\* every selector entry is an entry of the labels
SelectorHolds(pod, service) ==
    /\ pod.namespace = service.namespace
    /\ service.spec.selector \subseteq pod.labels

\* C1: after analyze_cluster on a freshly parsed state, a Service with a
\* non-empty selector has a SELECTS edge to a Pod, and the Pod an EXPOSES edge to
\* the Service, exactly when both are in the same namespace and every selector
\* entry is among the Pod's labels.
C1_ServiceSelection ==
    runs = 1 =>
        \A s, p \in 1..Len(resources) :
            ( /\ resources[s].kind = "Service"
              /\ resources[s].spec.selector # {}
              /\ resources[p].kind = "Pod" )
            =>
            /\ HasEdge(resources[s], "selects", ref(resources[p]))
                   <=> SelectorHolds(resources[p], resources[s])
            /\ HasEdge(resources[p], "exposes", ref(resources[s]))
                   <=> SelectorHolds(resources[p], resources[s])

\* a Service selects a Pod that has one label more than the selector asks for,
\* and not a Pod of its namespace whose label value differs
C1_Witness ==
    /\ runs = 1
    /\ \E s, p, q \in 1..Len(resources) :
        /\ resources[s].kind = "Service"
        /\ resources[p].kind = "Pod" /\ resources[q].kind = "Pod"
        /\ resources[s].spec.selector = {<<"app", "x">>}
        /\ resources[p].labels = {<<"app", "x">>, <<"tier", "y">>}
        /\ resources[q].labels = {<<"app", "z">>}
        /\ resources[q].namespace = resources[s].namespace
        /\ HasEdge(resources[s], "selects", ref(resources[p]))
        /\ HasEdge(resources[p], "exposes", ref(resources[s]))
        /\ ~HasEdge(resources[s], "selects", ref(resources[q]))

DeletionIssue == << <<"Resource is being deleted">> >>

\* C2: after analyze_cluster on a parsed state, a resource with a deletion
\* timestamp is WARNING and its issues are exactly the deletion message, whatever
\* its kind and status; on every later run it is still WARNING.
C2_DeletionOverrides ==
    \A i \in 1..Len(resources) :
        resources[i].deletion_timestamp =>
            /\ runs >= 1 => resources[i].health_status = "warning"
            /\ runs = 1 => resources[i].issues = DeletionIssue

\* a Failed Pod, a Service without selector and a Node whose Ready condition is
\* False, all three being deleted, have been analysed
C2_Witness ==
    /\ runs = 1
    /\ \E p, s, n \in 1..Len(resources) :
        /\ resources[p].kind = "Pod" /\ resources[p].status.phase = "Failed"
        /\ resources[s].kind = "Service" /\ resources[s].spec.selector = {}
        /\ resources[n].kind = "Node" /\ Len(resources[n].status.conditions) = 2
        /\ \A i \in {p, s, n} :
            /\ resources[i].deletion_timestamp
            /\ resources[i].issues = DeletionIssue

\* C3: a second analyze_cluster on the same ClusterState leaves
\* cluster_state.relationships as the first run left it.
C3_AnalyzeTwiceSameRelationships ==
    [][runs >= 1 => relationships' = relationships]_vars

\* the items of a List export that are well-formed documents of supported kinds
SupportedItems(items) == SelectSeq(items, LAMBDA d : d.kind \in SUPPORTED_KINDS)

\* the file is a List export whose items are well-formed documents of supported
\* kinds and documents of unsupported kinds, and nothing else
IsListExport(f) ==
    /\ f.exists /\ f.syntax = "json"
    /\ f.docs[1].form = "mapping" /\ f.docs[1].kind = "List"
    /\ f.docs[1].has_items = "list"
    /\ \A k \in 1..Len(f.docs[1].items) :
        LET d == f.docs[1].items[k]
        IN  /\ d.form = "mapping" /\ Truthy(d.kind)
            /\ d.kind \in SUPPORTED_KINDS => d.valid

\* C4: parsing, with a fresh parser, a List export of N well-formed items of
\* supported kinds and M items of unsupported kinds, in any order, returns
\* exactly the N resources, in the order of the items, and leaves the counters
\* at parsed = N, skipped = M, errors = 0.
C4_ListExportCounts ==
    (call.op = "parse_file" /\ IsListExport(call.files[1])) =>
        LET items == call.files[1].docs[1].items
            supported == SupportedItems(items)
            N == Len(supported)
            M == Len(items) - N
        IN  /\ raised = None
            /\ Len(resources) = N
            /\ \A k \in 1..N : /\ resources[k].kind = supported[k].kind
                               /\ resources[k].name = supported[k].name
            /\ get_parse_stats(parser) =
                   [parsed |-> N, errors |-> 0, skipped |-> M, total |-> N + M]

C4_Witness ==
    /\ call.op = "parse_file" /\ IsListExport(call.files[1])
    /\ Len(call.files[1].docs[1].items) = 3
    /\ call.files[1].docs[1].items[1].kind = "Secret"
    /\ parser.parsed_count = 2 /\ parser.skipped_count = 1
    /\ Len(resources) = 2

\* what one file gives when parsed on its own
Alone(f) == parse_file(f, NewParser)

\* C5: parse_multiple_files returns whatever files fail: its resources are those
\* of the files that parse, concatenated in file order, each failed file adds
\* one to the error counter, and the summary is that of the merged state.
C5_BatchContinues ==
    call.op = "parse_multiple_files" =>
        LET fs == call.files
            errors[k \in 0..Len(fs)] ==
                IF k = 0 THEN 0
                ELSE errors[k - 1] + (IF Alone(fs[k]).raised # None THEN 1
                                      ELSE Alone(fs[k]).parser.error_count)
        IN  /\ raised = None
            /\ resources = FlatMap(LAMBDA k : IF Alone(fs[k]).raised # None THEN <<>>
                                              ELSE Alone(fs[k]).resources, Len(fs))
            /\ parser.error_count = errors[Len(fs)]
            /\ summary.total_resources = Len(resources)

C5_Witness ==
    /\ call.op = "parse_multiple_files" /\ Len(call.files) = 3
    /\ ~call.files[1].exists
    /\ Alone(call.files[2]).raised = None
    /\ Alone(call.files[3]).raised = "JSONDecodeError"
    /\ raised = None /\ Len(resources) = 2 /\ parser.error_count = 3

\* the file is missing, or its text is not JSON / YAML as its suffix asks
WholeFileFailure(f) ==
    \/ ~f.exists
    \/ f.syntax = "garbage"
    \/ f.suffix = ".json" /\ f.syntax # "json"

\* C6: parse_file raises only when the file is missing or its content is not
\* parseable; whatever is wrong with a document of a file that parses is
\* counted, and parse_file returns.
C6_RaisesOnlyForWholeFile ==
    (call.op = "parse_file" /\ ~WholeFileFailure(call.files[1])) => raised = None

\* the paths of a directory that discovery is to find
Matching(root, patterns, recursive) ==
    LET used == IF patterns = <<>> THEN DefaultPatterns ELSE patterns
    IN  {e.path : e \in {x \in Range(root.entries) :
                            /\ recursive \/ x.depth = 0
                            /\ \E k \in 1..Len(used) : Matches(x.name, used[k])}}

\* C7: over a directory, the files parsed are in ascending order, each once,
\* and with max_files = k they are the first min(k, n) of the n matching files;
\* without max_files they are all n.
C7_SortedPrefix ==
    (call.op = "discover_and_parse" /\ call.root.exists /\ call.root.is_dir) =>
        LET matching == Matching(call.root, call.patterns, call.recursive)
            n == Cardinality(matching)
            k == call.max_files
            take == IF k = -1 \/ n < k THEN n ELSE k
        IN  /\ raised = None
            /\ \A i, j \in 1..Len(call.paths) : i < j => call.paths[i] < call.paths[j]
            /\ Range(call.paths) =
                   {q \in matching : Cardinality({x \in matching : x < q}) < take}
            /\ Len(resources) = take

\* C8: discovery on a root that does not exist raises FileNotFoundError, no file
\* is parsed and no counter changes; a root that exists and holds no matching
\* file gives an empty ClusterState and no error.
C8_MissingRootRaises ==
    call.op = "discover_and_parse" =>
        /\ ~call.root.exists =>
            /\ raised = "FileNotFoundError"
            /\ call.paths = <<>>
            /\ parser = NewParser
            /\ resources = <<>>
        /\ ( /\ call.root.exists
             /\ IF call.root.is_dir
                THEN Matching(call.root, call.patterns, call.recursive) = {}
                ELSE /\ call.patterns # <<>>
                     /\ \A k \in 1..Len(call.patterns) :
                            ~Matches(call.root.entries[1].name, call.patterns[k]) ) =>
            /\ raised = None
            /\ resources = <<>> /\ relationships = <<>> /\ summary = EmptySummary
            /\ parser = NewParser

C8_Witness ==
    /\ call.op = "discover_and_parse" /\ ~call.root.exists
    /\ raised = "FileNotFoundError" /\ parser = NewParser

\* the parsed resources of a state: relationships, verdicts and issues taken off
Fresh(res) ==
    [i \in 1..Len(res) |->
        [res[i] EXCEPT !.relationships = <<>>, !.health_status = "unknown",
                       !.issues = <<>>]]

\* C9: with the five passes run in any order, every resource ends with the same
\* set of relationships, and the cluster list holds the same set, as with the
\* order of analyze_cluster.
C9_PassOrderIrrelevant ==
    (runs = 1 /\ passes_left = {}) =>
        LET inOrder == analyze_cluster(Fresh(resources))
        IN  /\ \A i \in 1..Len(resources) :
                Range(resources[i].relationships)
                    = Range(inOrder.resources[i].relationships)
            /\ Range(relationships) = Range(inOrder.relationships)

\* a run in which two passes appended to one resource in the other order than
\* analyze_cluster has them: the lists differ, the sets do not
C9_Witness ==
    /\ runs = 1 /\ passes_left = {}
    /\ relationships # analyze_cluster(Fresh(resources)).relationships
    /\ Cardinality({e.relationship_type : e \in Range(relationships)}) >= 2

BindsOf(r) == SelectSeq(r.relationships, LAMBDA e : e.relationship_type = "binds")

\* the PersistentVolumes named v that carry no namespace
BoundVolumes(res, v) ==
    {j \in 1..Len(res) :
        /\ res[j].kind = "PersistentVolume"
        /\ res[j].name = v
        /\ res[j].namespace = None}

\* C10: after one analyze_cluster run a PersistentVolumeClaim whose status names
\* volume v has exactly one BINDS relationship, to the cluster-scoped
\* PersistentVolume v, when that volume is in the resource set; it has none when
\* the volume is missing or the claim has no status or no volumeName.
C10_StorageBinding ==
    runs = 1 =>
        \A i \in 1..Len(resources) :
            resources[i].kind = "PersistentVolumeClaim" =>
                LET v == resources[i].status.volumeName
                    named == resources[i].status.present /\ v # None
                IN  IF named /\ BoundVolumes(resources, v) # {}
                    THEN /\ Len(BindsOf(resources[i])) = 1
                         /\ BindsOf(resources[i])[1].source = ref(resources[i])
                         /\ \E j \in BoundVolumes(resources, v) :
                                BindsOf(resources[i])[1].target = ref(resources[j])
                    ELSE BindsOf(resources[i]) = <<>>

\* one claim bound to the volume that is there, one claim with a status that
\* names no volume, both analysed
C10_Witness ==
    /\ runs = 1
    /\ \E i, k \in 1..Len(resources) :
        /\ resources[i].kind = "PersistentVolumeClaim"
        /\ resources[i].status.volumeName = "a"
        /\ Len(BindsOf(resources[i])) = 1
        /\ BindsOf(resources[i])[1].target.kind = "PersistentVolume"
        /\ resources[k].kind = "PersistentVolumeClaim"
        /\ resources[k].status.present
        /\ resources[k].status.volumeName = None
        /\ BindsOf(resources[k]) = <<>>

\* the edges a pod has to the node it is scheduled on
ScheduledOn(r) ==
    SelectSeq(r.relationships,
        LAMBDA e : e.relationship_type = "depends_on" /\ e.metadata.key = "scheduled")

\* C11: after analyze_cluster a Pod with spec.nodeName = n has a DEPENDS_ON
\* edge to Node n tagged scheduled = true exactly when a Node named n is among
\* the resources; when there is none the Pod gets no such edge and no issue, and
\* nothing is raised. A Pod without nodeName gets no such edge.
C11_ScheduledNode ==
    runs = 1 =>
        /\ raised = None
        /\ \A p \in 1..Len(resources) :
            resources[p].kind = "Pod" =>
                LET n == resources[p].spec.nodeName
                    nodes == {i \in 1..Len(resources) :
                                 resources[i].kind = "Node" /\ resources[i].name = n}
                    edges == ScheduledOn(resources[p])
                IN  IF Truthy(n) /\ nodes # {}
                    THEN /\ Len(edges) = 1
                         /\ edges[1].target.kind = "Node" /\ edges[1].target.name = n
                         /\ edges[1].source = ref(resources[p])
                         /\ edges[1].metadata.val = "True"
                    ELSE edges = <<>> /\ resources[p].issues = <<>>

C11_Witness ==
    /\ runs = 1
    /\ \E p, q \in 1..Len(resources) :
        /\ resources[p].kind = "Pod" /\ resources[p].spec.nodeName = "n"
        /\ Len(ScheduledOn(resources[p])) = 1
        /\ resources[q].kind = "Pod" /\ resources[q].spec.nodeName = "m"
        /\ ScheduledOn(resources[q]) = <<>>

\* the edges the ownership pass gave a resource
OwnerEdges(r) ==
    SelectSeq(r.relationships, LAMBDA e : e.metadata.key = "owner_reference")

\* the owner-reference entries that have both a kind and a name
NamedOwners(r) ==
    SelectSeq(r.owner_references, LAMBDA o : Truthy(o.kind) /\ Truthy(o.name))

\* C20: after analyze_cluster every resource has, for each of its owner-reference
\* entries that has a kind and a name, and in their order, one DEPENDS_ON edge
\* to a reference with the owner's kind and name and the resource's own
\* namespace (none when it has none), whether or not the owner is among the
\* resources; the other entries give no edge.
C20_OwnerEdges ==
    runs = 1 =>
        \A i \in 1..Len(resources) :
            LET r == resources[i]
                owners == NamedOwners(r)
                edges == OwnerEdges(r)
            IN  /\ Len(edges) = Len(owners)
                /\ \A k \in 1..Len(edges) :
                    /\ edges[k].relationship_type = "depends_on"
                    /\ edges[k].source = ref(r)
                    /\ edges[k].target.kind = owners[k].kind
                    /\ edges[k].target.name = owners[k].name
                    /\ edges[k].target.namespace = r.namespace

C20_Witness ==
    /\ runs = 1
    /\ \E i, j \in 1..Len(resources) :
        /\ resources[i].kind = "Node" /\ Len(OwnerEdges(resources[i])) = 1
        /\ OwnerEdges(resources[i])[1].target.namespace = None
        /\ OwnerEdges(resources[i])[1].target.kind = "ReplicaSet"
        /\ resources[j].kind = "Pod" /\ Len(resources[j].owner_references) = 3
        /\ Len(OwnerEdges(resources[j])) = 2
        /\ \A k \in 1..Len(resources) : resources[k].kind # "Service"

\* equal in apiVersion, kind, name and namespace
SameIdentity(a, b) ==
    /\ a.api_version = b.api_version /\ a.kind = b.kind /\ a.name = b.name
    /\ a.namespace = b.namespace

\* C12: two references are equal exactly when their apiVersion, kind, name and
\* namespace are; so get_resource_by_ref returns the first resource that has
\* these four fields of the reference, whatever the uid of either, and equal
\* references have equal hashes.
C12_ReferenceIdentity ==
    call.op = "get_resource_by_ref" =>
        LET same == {i \in 1..Len(resources) :
                        SameIdentity(ref(resources[i]), call.reference)}
        IN  /\ \A i \in 1..Len(resources) :
                /\ ref_eq(ref(resources[i]), call.reference) <=> i \in same
                /\ ref_eq(ref(resources[i]), call.reference) =>
                       ref_hash(ref(resources[i])) = ref_hash(call.reference)
            /\ IF same = {} THEN call.found = 0
               ELSE call.found = CHOOSE i \in same : \A j \in same : i <= j

\* the resources returned by the calls that returned
RECURSIVE Returned(_)
Returned(counts) ==
    IF counts = <<>> THEN 0
    ELSE (IF Head(counts) < 0 THEN 0 ELSE Head(counts)) + Returned(Tail(counts))

\* C13: after any sequence of parse_file and parse_multiple_files calls on one
\* parser, parsed_count is the number of resources the calls returned in
\* total (a call that raised returned none), and the total of get_parse_stats
\* is parsed + errors + skipped.
C13_CountersAddUp ==
    /\ parser.parsed_count = Returned(results)
    /\ get_parse_stats(parser).parsed = parser.parsed_count
    /\ get_parse_stats(parser).total =
           parser.parsed_count + parser.error_count + parser.skipped_count

C13_Witness ==
    /\ Len(results) >= 3
    /\ results[1] > 0 /\ results[2] = -1 /\ results[3] > 2
    /\ call.op = "parse_multiple_files"
    /\ parser.error_count > 0 /\ parser.skipped_count > 0

\* C14: exporting the ClusterState that was exported before to the same
\* database again leaves the number of rows of the resources table unchanged
\* with replace_existing=True (after an export with replace_existing=True),
\* and with replace_existing=False adds one row per exported resource to the
\* rows that were there.
C14_ReplaceOrAppend ==
    [][(call.op = "export_cluster_state" /\ raised = None /\ raised' = None) =>
            IF call'.replace_existing
            THEN call.replace_existing =>
                     Len(db'.resources) = Len(db.resources)
            ELSE Len(db'.resources) = Len(db.resources) + Len(resources)]_vars

\* C15: analyze_cluster never raises because of a malformed nested field of
\* one resource (such as a mounted volume whose configMap is null): the field
\* counts as absent and the analysis completes.
C15_NeverRaises == runs >= 1 => raised = None

\* the edges of r of this type to resources of this kind, as (name, namespace)
\* of the target
EdgesTo(r, type, kind) ==
    LET mine == SelectSeq(r.relationships,
                    LAMBDA e : e.relationship_type = type /\ e.target.kind = kind)
    IN  [k \in 1..Len(mine) |-> <<mine[k].target.name, mine[k].target.namespace>>]

\* a resource of this kind, name and namespace is in the list
Present(kind, name, namespace) ==
    \E j \in 1..Len(resources) :
        /\ resources[j].kind = kind /\ resources[j].name = name
        /\ resources[j].namespace = namespace

\* the ConfigMap names a pod refers to: env configMapKeyRef, and the configMap
\* source of a mounted volume
ConfigMapNames(r) ==
    LET cs == r.spec.containers
        vs == r.spec.volumes
    IN  (UNION {{cs[c].env[e].configMapKeyRef : e \in 1..Len(cs[c].env)}
                    : c \in 1..Len(cs)}
         \cup {vs[v].configMap : v \in {w \in 1..Len(vs) :
                    \E c \in 1..Len(cs) : vs[w].name \in Range(cs[c].volumeMounts)}})
        \ {None, Null}

\* C16: after analyze_cluster a Pod in namespace ns that refers to ConfigMap c
\* has a USES edge to ConfigMap c of ns when that ConfigMap is in the list;
\* when it is not, the reference adds no edge and no issue.
C16_ConfigMapEdge ==
    (runs = 1 /\ raised = None) =>
        \A i \in 1..Len(resources) :
            resources[i].kind = "Pod" =>
                LET r == resources[i]
                    found == {c \in ConfigMapNames(r) :
                                 Present("ConfigMap", c, r.namespace)}
                IN  /\ Range(EdgesTo(r, "uses", "ConfigMap")) =
                           {<<c, r.namespace>> : c \in found}
                    /\ found = {} => r.issues = <<>>

\* C18: after analyze_cluster a Pod in namespace ns whose serviceAccountName is
\* a, a not "default", has one USES edge to ServiceAccount a exactly when
\* ServiceAccount a of ns is in the list; a Pod whose service account is unset
\* or "default" has no ServiceAccount edge.
C18_ServiceAccountEdge ==
    (runs = 1 /\ raised = None) =>
        \A i \in 1..Len(resources) :
            resources[i].kind = "Pod" =>
                LET r == resources[i]
                    a == r.spec.serviceAccountName
                IN  EdgesTo(r, "uses", "ServiceAccount") =
                        IF a \notin {None, "default"}
                           /\ Present("ServiceAccount", a, r.namespace)
                        THEN << <<a, r.namespace>> >>
                        ELSE <<>>

\* the namespace a RoleBinding subject means
SubjectNamespace(rb, subject) ==
    IF subject.namespace = None THEN rb.namespace ELSE subject.namespace

\* C19: after analyze_cluster the REFERENCES edges of a RoleBinding are, subject
\* by subject, its ServiceAccount subjects whose ServiceAccount (of the
\* subject's namespace, or of the RoleBinding's when the subject gives none) is
\* in the list, each with metadata subject = true; other subjects give no edge.
C19_SubjectEdges ==
    (runs = 1 /\ raised = None) =>
        \A i \in 1..Len(resources) :
            resources[i].kind = "RoleBinding" =>
                LET rb == resources[i]
                    refs == SelectSeq(rb.relationships,
                                LAMBDA e : e.relationship_type = "references")
                    accounts == SelectSeq(rb.spec.subjects, LAMBDA x :
                                    /\ x.kind = "ServiceAccount"
                                    /\ Present("ServiceAccount", x.name,
                                               SubjectNamespace(rb, x)))
                IN  [k \in 1..Len(refs) |->
                        <<refs[k].target.kind, refs[k].target.name,
                          refs[k].target.namespace, refs[k].metadata>>]
                    = [k \in 1..Len(accounts) |->
                        <<"ServiceAccount", accounts[k].name,
                          SubjectNamespace(rb, accounts[k]), Meta("subject", "True")>>]

\* the Secret names a pod spec refers to: env secretKeyRef, and the secret
\* source of a mounted volume
SecretNames(spec) ==
    LET cs == spec.containers
        vs == spec.volumes
    IN  (UNION {{cs[c].env[e].secretKeyRef : e \in 1..Len(cs[c].env)}
                    : c \in 1..Len(cs)}
         \cup {vs[v].secret : v \in {w \in 1..Len(vs) :
                    \E c \in 1..Len(cs) : vs[w].name \in Range(cs[c].volumeMounts)}})
        \ {None, Null}

\* C17: parse, then analyze: when the input holds a Secret document named s in
\* namespace ns and a Pod of ns that refers to Secret s (env secretKeyRef or a
\* mounted secret volume), the analyzed state has a USES edge from that Pod to
\* Secret s.
C17_SecretEdge ==
    (call.op = "analyze" /\ raised = None) =>
        LET items == Range(call.files[1].docs[1].items)
        IN  \A d \in items, t \in items :
                (/\ d.kind = "Pod" /\ t.kind = "Secret"
                 /\ t.namespace = d.namespace /\ t.name \in SecretNames(d.spec)) =>
                    \E i \in 1..Len(resources) :
                        /\ resources[i].kind = "Pod"
                        /\ resources[i].name = d.name
                        /\ resources[i].namespace = d.namespace
                        /\ <<t.name, t.namespace>> \in
                               Range(EdgesTo(resources[i], "uses", "Secret"))

\* the first position of a sequence that satisfies Test, 0 when none does
FirstWhere(seq, Test(_)) ==
    IF \A k \in 1..Len(seq) : ~Test(seq[k]) THEN 0
    ELSE CHOOSE k \in 1..Len(seq) : Test(seq[k]) /\ \A j \in 1..(k - 1) : ~Test(seq[j])

\* verdict and issues of a resource after the first run
Verdict(r) == <<r.health_status, r.issues>>

\* what C21 says of a Running Pod: not ready comes before high restart count
\* over the whole list of container statuses
RunningByRule(cs) ==
    LET unready == FirstWhere(cs, LAMBDA c : ~c.ready)
        restarting == FirstWhere(cs, LAMBDA c : c.restartCount > 5)
    IN  IF unready # 0
            THEN <<"warning", << <<"Container", cs[unready].name, "is not ready">> >>>>
        ELSE IF restarting # 0
            THEN <<"warning", << <<"Container", cs[restarting].name,
                                   "has high restart count">> >>>>
        ELSE <<"healthy", <<>>>>

\* the same container by container: the first container status that is not
\* ready or has restarted more than 5 times decides, not ready first
RunningByContainer(cs) ==
    LET first == FirstWhere(cs, LAMBDA c : ~c.ready \/ c.restartCount > 5)
    IN  IF first = 0 THEN <<"healthy", <<>>>>
        ELSE IF ~cs[first].ready
            THEN <<"warning", << <<"Container", cs[first].name, "is not ready">> >>>>
        ELSE <<"warning", << <<"Container", cs[first].name,
                               "has high restart count">> >>>>

PodVerdict(r, Running(_)) ==
    IF ~StatusTruthy(r) THEN <<"unknown", <<>>>>
    ELSE CASE r.status.phase = "Failed" -> <<"error", << <<"Pod is in Failed phase">> >>>>
           [] r.status.phase = "Pending" ->
                  <<"warning", << <<"Pod is in Pending phase">> >>>>
           [] r.status.phase = "Running" -> Running(r.status.containerStatuses)
           [] OTHER -> <<"healthy", <<>>>>

\* C21: after the first run a Pod without deletion timestamp is UNKNOWN without
\* status, ERROR when Failed, WARNING when Pending; when Running, WARNING with
\* the not-ready issue of the first not-ready container if any container is not
\* ready, otherwise WARNING with the high-restart issue of the first container
\* with restartCount > 5, otherwise HEALTHY; at most one issue.
C21_PodPriority ==
    runs = 1 =>
        \A i \in 1..Len(resources) :
            (resources[i].kind = "Pod" /\ ~resources[i].deletion_timestamp) =>
                /\ Verdict(resources[i]) = PodVerdict(resources[i], RunningByRule)
                /\ Len(resources[i].issues) <= 1

\* C21 as amended: when Running, the first container status that is not ready
\* or has restartCount > 5 decides: its not-ready issue if it is not ready,
\* otherwise its high-restart issue.
C21_PodPriorityByContainer ==
    runs = 1 =>
        \A i \in 1..Len(resources) :
            (resources[i].kind = "Pod" /\ ~resources[i].deletion_timestamp) =>
                /\ Verdict(resources[i]) = PodVerdict(resources[i], RunningByContainer)
                /\ Len(resources[i].issues) <= 1

C21_Witness ==
    /\ runs = 1
    /\ \E i \in 1..Len(resources) :
        /\ resources[i].kind = "Pod" /\ ~resources[i].deletion_timestamp
        /\ resources[i].status.phase = "Running"
        /\ Len(resources[i].status.containerStatuses) = 2
        /\ resources[i].status.containerStatuses[1].restartCount > 5
        /\ ~resources[i].status.containerStatuses[2].ready
        /\ resources[i].issues = << <<"Container", "c1", "has high restart count">> >>

\* C22: after the first run a Service without deletion timestamp is WARNING
\* with "LoadBalancer service has no ingress" when its status has a
\* loadBalancer entry without ingress; otherwise WARNING with "Service has no
\* selector" when its selector is empty; otherwise HEALTHY; never both issues.
C22_ServiceHealth ==
    runs = 1 =>
        \A i \in 1..Len(resources) :
            (resources[i].kind = "Service" /\ ~resources[i].deletion_timestamp) =>
                Verdict(resources[i]) =
                    IF resources[i].status.present
                       /\ resources[i].status.loadBalancer = "no-ingress"
                        THEN <<"warning", << <<"LoadBalancer service has no ingress">> >>>>
                    ELSE IF resources[i].spec.selector = {}
                        THEN <<"warning", << <<"Service has no selector">> >>>>
                    ELSE <<"healthy", <<>>>>

C22_Witness ==
    /\ runs = 1
    /\ \E i \in 1..Len(resources) :
        /\ resources[i].kind = "Service" /\ ~resources[i].deletion_timestamp
        /\ resources[i].status.loadBalancer = "no-ingress"
        /\ resources[i].spec.selector = {}
        /\ resources[i].issues = << <<"LoadBalancer service has no ingress">> >>

\* what a document yields when parsed as a single resource
SingleResource(d) ==
    IF d.form = "mapping" /\ d.kind \in SUPPORTED_KINDS /\ d.valid
    THEN << BuildResource(d) >> ELSE <<>>

\* what a document yields when a List with an items array is unwrapped
Unwrapped(d) ==
    IF d.form = "null" THEN <<>>
    ELSE IF d.form = "mapping" /\ d.kind = "List" /\ d.has_items = "list"
        THEN FlatMap(LAMBDA k : SingleResource(d.items[k]), Len(d.items))
    ELSE SingleResource(d)

\* C23: the resources parse_file returns are, document by document, the items
\* of every document that is a List with an items array and the resource of
\* every other non-null document, for a file of one document and for a YAML
\* stream of several.
C23_EveryListUnwrapped ==
    (call.op = "parse_file" /\ raised = None) =>
        LET docs == call.files[1].docs
        IN  resources = FlatMap(LAMBDA k : Unwrapped(docs[k]), Len(docs))

\* the add_relationship calls pass p has made so far
Made(p) == SubSeq(PassCalls(p, resources), 1, pc[p])

\* the resources whose relationship list pass p has appended to so far
WrittenBy(p) == {Made(p)[k].at : k \in 1..pc[p]}

\* the resources as they were before any analysis
BeforeAnalysis(res) ==
    [i \in 1..Len(res) |->
        [res[i] EXCEPT !.relationships = <<>>, !.health_status = "unknown",
                       !.issues = <<>>]]

\* the concurrent passes have ended with the relationships of the sequential run
SameAsSequential ==
    LET sequential == analyze_cluster(BeforeAnalysis(resources))
    IN  /\ \A i \in 1..Len(resources) :
            /\ Range(resources[i].relationships)
                   = Range(sequential.resources[i].relationships)
            /\ Len(resources[i].relationships)
                   = Len(sequential.resources[i].relationships)
        /\ Range(relationships) = Range(sequential.relationships)

\* C24 as stated: when the five passes run as concurrent processes, no two of
\* them ever append to the relationship list of the same resource, while
\* working on a resource a pass appends only to that resource's own list, and
\* every interleaving ends with the relationship set of the sequential run.
C24_DisjointWrites ==
    /\ \A p, q \in Passes : p # q => WrittenBy(p) \cap WrittenBy(q) = {}
    /\ \A p \in Passes : \A k \in 1..pc[p] : Made(p)[k].at = Made(p)[k].by
    /\ (runs = 1 /\ raised = None) => SameAsSequential

\* C24, amended: when the five passes run as concurrent processes and every
\* append is atomic, every interleaving ends with the relationships of the
\* sequential run, as a set, in every resource's list and in the cluster's
\* list, although the writes are not disjoint.
C24_SameRelationshipSet ==
    (runs = 1 /\ raised = None /\ \E p \in Passes : pc[p] > 0) => SameAsSequential

\* an interleaving has ended in which two passes appended to the list of one
\* Pod, the service pass did so while working on a Service, and the list is
\* in another order than the sequential run leaves it
C24_Witness ==
    /\ runs = 1 /\ raised = None
    /\ \E i \in 1..Len(resources) :
        /\ resources[i].kind = "Pod"
        /\ i \in WrittenBy("ownership") \cap WrittenBy("service") \cap WrittenBy("pod")
        /\ \E k \in 1..pc["service"] :
              Made("service")[k].at = i /\ Made("service")[k].by # i
        /\ resources[i].relationships
              # analyze_cluster(BeforeAnalysis(resources)).resources[i].relationships

\* the relationship lists of the resources, one after the other in resource order
Concatenated(res) ==
    LET acc[k \in 0..Len(res)] ==
            IF k = 0 THEN <<>> ELSE acc[k - 1] \o res[k].relationships
    IN  acc[Len(res)]

\* C25: when analyze_cluster returns, the cluster's relationships are exactly
\* the concatenation, in resource order, of every resource's relationship
\* list, whatever the lists held before, and the summary is that of the state
\* after the health pass: total_relationships is the length of that list,
\* total_resources the number of resources, and the count of each health
\* status the number of resources with that final verdict, summing to
\* total_resources.
C25_CollectedAndSummarised ==
    (runs >= 1 /\ raised = None) =>
        /\ relationships = Concatenated(resources)
        /\ summary.total_relationships = Len(relationships)
        /\ summary.total_resources = Len(resources)
        /\ \A h \in ResourceStatus :
              summary.health_status[h]
                 = Cardinality({i \in 1..Len(resources) : resources[i].health_status = h})
        /\ summary.health_status["healthy"] + summary.health_status["warning"]
             + summary.health_status["error"] + summary.health_status["unknown"]
             = Len(resources)

\* a second run has returned over lists the first run had filled, with
\* resources of two verdicts
C25_Witness ==
    /\ runs = 2 /\ raised = None
    /\ Len(relationships) >= 4
    /\ summary.health_status["warning"] >= 1
    /\ summary.health_status["unknown"] >= 1
    /\ \E i \in 1..Len(resources) : Len(resources[i].relationships) >= 2

\* C26: in every state reached by analyze_cluster runs on a parsed state, every
\* relationship in a resource's list has that resource's own reference (kind,
\* name, namespace, apiVersion) as its source; the inverse EXPOSES edge is in
\* the Pod's list, with the Pod as source and the Service as target.
C26_StoredOnSource ==
    \A i \in 1..Len(resources) :
        \A k \in 1..Len(resources[i].relationships) :
            LET e == resources[i].relationships[k]
            IN  /\ SameIdentity(e.source, ref(resources[i]))
                /\ e.relationship_type = "exposes" =>
                      /\ resources[i].kind = "Pod"
                      /\ e.target.kind = "Service"

\* after two runs a Pod holds EXPOSES edges and a Service SELECTS edges
C26_Witness ==
    /\ runs = 2
    /\ \E i, j \in 1..Len(resources) :
        /\ resources[i].kind = "Pod" /\ resources[j].kind = "Service"
        /\ \E k \in 1..Len(resources[i].relationships) :
              /\ resources[i].relationships[k].relationship_type = "exposes"
              /\ SameIdentity(resources[i].relationships[k].target, ref(resources[j]))
        /\ \E k \in 1..Len(resources[j].relationships) :
              resources[j].relationships[k].relationship_type = "selects"

\* the names of this kind a pod refers to
ReferencedNames(r, kind) ==
    CASE kind = "ConfigMap" -> ConfigMapNames(r)
      [] kind = "Secret" -> SecretNames(r.spec)
      [] kind = "PersistentVolumeClaim" ->
            {r.spec.volumes[v].persistentVolumeClaim : v \in 1..Len(r.spec.volumes)}
                \ {None, Null}
      [] kind = "ServiceAccount" -> {r.spec.serviceAccountName} \ {None, "default"}
      [] OTHER -> {}

\* C27: every USES edge that analysis puts on a Pod points at a resource that
\* is in the list, lies in the Pod's own namespace and has exactly a name the
\* Pod refers to for that kind; a reference to name c from a Pod of namespace
\* ns never resolves to a resource named ns in namespace c.
C27_UsesEdgesResolve ==
    \A i \in 1..Len(resources) :
        resources[i].kind = "Pod" =>
            \A k \in 1..Len(resources[i].relationships) :
                LET r == resources[i]
                    e == r.relationships[k]
                IN  e.relationship_type = "uses" =>
                        /\ Present(e.target.kind, e.target.name, e.target.namespace)
                        /\ e.target.namespace = r.namespace
                        /\ e.target.name \in ReferencedNames(r, e.target.kind)

\* C28: after one analyze_cluster run on a freshly parsed state every resource
\* has at most one issue, and it has an issue exactly when its health verdict
\* is WARNING or ERROR.
C28_OneIssueIffUnhealthy ==
    runs = 1 =>
        \A i \in 1..Len(resources) :
            /\ Len(resources[i].issues) <= 1
            /\ resources[i].issues # <<>>
                  <=> resources[i].health_status \in {"warning", "error"}

\* one run has left an ERROR resource and a WARNING resource that is being
\* deleted and has a defect of its own, each with one issue, and a HEALTHY
\* resource without
C28_Witness ==
    /\ runs = 1
    /\ \E i, j, k \in 1..Len(resources) :
        /\ resources[i].health_status = "error" /\ Len(resources[i].issues) = 1
        /\ resources[j].health_status = "warning" /\ resources[j].deletion_timestamp
        /\ resources[j].status.phase = "Failed" /\ Len(resources[j].issues) = 1
        /\ resources[k].health_status = "healthy" /\ resources[k].issues = <<>>

\* C29: health assessment is idempotent across repeated analysis: a further
\* analyze_cluster run leaves every resource's health verdict and issues list
\* as the first run left them; no issue is recorded again.
C29_HealthIdempotent ==
    [][runs >= 1 =>
          \A i \in 1..Len(resources) :
              /\ resources'[i].health_status = resources[i].health_status
              /\ resources'[i].issues = resources[i].issues]_vars

\* C30: what export_multiple_files_to_sqlite finds and exports does not depend
\* on batch_size: for the same ordered file list every batch size gives the
\* total resource count and the set of relationships of analysing all files
\* together, edges between resources of files in different batches included.
C30_BatchSizeIndependent ==
    (call.op = "export_multiple_files_to_sqlite" /\ raised = None) =>
        LET together ==
                analyze_cluster(parse_multiple_files(call.files, NewParser).resources)
        IN  /\ call.totals[1] = Len(together.resources)
            /\ Range(db.relationships)
                  = {RelationshipRow(e) : e \in Range(together.relationships)}
====
